---- MODULE Spec2Model ----
(***************************************************************************)
(* Model of the request handlers of sample-guardrail-selector:             *)
(*   - QueryKnowledgeBase.perform_retrieve_and_generate (stale-session     *)
(*     retry around retrieve_and_generate), specification SpecRetry;       *)
(*   - InvokeAgent.process_agent_response (normalization of the agent's    *)
(*     event stream), specification SpecNormalize;                         *)
(*   - SyncKnowledgeBase.handler (start of an ingestion job and the wait   *)
(*     loop that polls its status), specifications SpecPoller and          *)
(*     SpecPollerFair;                                                     *)
(*   - QueryKnowledgeBase.handle_query (the request handler around         *)
(*     perform_retrieve_and_generate), specification SpecQuery;            *)
(*   - ManageGuardrails.handler with update_agent_guardrail and            *)
(*     prepare_updated_agent, specification SpecGuardrail.                 *)
(* Python dicts are TLA+ functions whose domain is the set of keys.        *)
(* Python strings that the code inspects are sequences of characters.      *)
(***************************************************************************)
EXTENDS Integers, Sequences, FiniteSets, TLC

VARIABLES
    retrieve_params,  \* the dict object the caller passed to perform_retrieve_and_generate
    params0,          \* history: that dict as it was when the call began
    calls,            \* history: the keyword arguments of each retrieve_and_generate call
    outcomes,         \* history: what each retrieve_and_generate call did
    exc,              \* the ClientError bound to `e` in the except clause
    ret,              \* how perform_retrieve_and_generate ended: return value or raised error
    rpc,              \* position in perform_retrieve_and_generate
    response,         \* the dict process_agent_response is called with
    consumed,         \* history: the events response['completion'] has delivered
    result,           \* the result dict being built, then the value returned
    npc,              \* position in process_agent_response
    environ,          \* os.environ of SyncKnowledgeBase.handler and of handle_query
    now,              \* time.time(), in seconds
    start_time,       \* the handler's start_time (-1 before it is assigned)
    status,           \* the handler's status: the last status polled
    polls,            \* history: the number of get_ingestion_job calls
    sleeps,           \* history: the number of time.sleep calls
    first_terminal,   \* history: the first poll that returned a terminal status
    pexc,             \* the exception caught by the handler's except clauses
    presult,          \* the value the handler returned
    ppc,              \* position in SyncKnowledgeBase.handler
    body,             \* the body of the event handle_query is called with
    hret,             \* how handle_query ended: the response returned or the error raised
    hpc,              \* position in handle_query
    request,          \* the body of the event update_agent_guardrail is called with
    update_params,    \* the keyword arguments prepared for update_agent
    service_calls,    \* history: the Bedrock calls made, each with its outcome
    gret,             \* the response ManageGuardrails.handler returned
    gpc               \* position in update_agent_guardrail

rvars == <<retrieve_params, params0, calls, outcomes, exc, ret, rpc>>

nvars == <<response, consumed, result, npc>>

pvars == <<environ, now, start_time, status, polls, sleeps, first_terminal,
           pexc, presult, ppc>>

qvars == <<body, hret, hpc>>

gvars == <<request, update_params, service_calls, gret, gpc>>

vars == <<retrieve_params, params0, calls, outcomes, exc, ret, rpc,
          response, consumed, result, npc,
          environ, now, start_time, status, polls, sleeps, first_terminal,
          pexc, presult, ppc,
          body, hret, hpc,
          request, update_params, service_calls, gret, gpc>>

(***************************************************************************)
(* Python helpers                                                          *)
(***************************************************************************)
None == "<None>"

EmptyDict == [k \in {} |-> None]

\* d.get(k, default)
Get(d, k, default) == IF k \in DOMAIN d THEN d[k] ELSE default

\* d[k] = v
SetKey(d, k, v) == [x \in DOMAIN d \cup {k} |-> IF x = k THEN v ELSE d[x]]

\* the dict left by d.pop(k)
DelKey(d, k) == [x \in DOMAIN d \ {k} |-> d[x]]

\* truth value of a str-or-None
Truthy(v) == v # None /\ v # ""

\* sub in s, for strings as sequences of characters
Contains(sub, s) ==
    \E i \in 0..(Len(s) - Len(sub)) : SubSeq(s, i + 1, i + Len(sub)) = sub

(***************************************************************************)
(* QueryKnowledgeBase.py                                                   *)
(***************************************************************************)
IsNotValid == <<"i","s"," ","n","o","t"," ","v","a","l","i","d">>
SessionWithId == <<"S","e","s","s","i","o","n"," ","w","i","t","h"," ","I","d">>

\* Error messages the service may send.
MsgStale == <<"S","e","s","s","i","o","n"," ","w","i","t","h"," ","I","d"," ","a","b","c","1","2","3"," ","i","s"," ","n","o","t"," ","v","a","l","i","d">>
MsgOnlyNotValid == <<"I","n","p","u","t"," ","i","s"," ","n","o","t"," ","v","a","l","i","d">>
MsgOnlySession == <<"S","e","s","s","i","o","n"," ","w","i","t","h"," ","I","d"," ","a","b","c","1","2","3"," ","e","x","p","i","r","e","d">>
MsgRate == <<"R","a","t","e"," ","e","x","c","e","e","d","e","d">>
MsgReversed == <<"I","n","p","u","t"," ","i","s"," ","n","o","t"," ","v","a","l","i","d"," ","f","o","r"," ","S","e","s","s","i","o","n"," ","w","i","t","h"," ","I","d"," ","a","b","c","1","2","3">>
MsgLower == <<"s","e","s","s","i","o","n"," ","w","i","t","h"," ","i","d"," ","a","b","c","1","2","3"," ","i","s"," ","n","o","t"," ","v","a","l","i","d">>

Messages == {MsgStale, MsgOnlyNotValid, MsgOnlySession, MsgRate, MsgReversed, MsgLower}

ErrorCodes == {"ValidationException", "ThrottlingException", "ResourceNotFoundException"}

\* e.response of a ClientError: the Error block, its Code and its Message may each be missing.
ErrorResponses ==
    {EmptyDict}
    \cup {[Error |-> EmptyDict]}
    \cup {[Error |-> [Code |-> c]] : c \in ErrorCodes}
    \cup {[Error |-> [Message |-> m]] : m \in Messages}
    \cup {[Error |-> [Code |-> c, Message |-> m]] : c \in ErrorCodes, m \in Messages}

\* What one retrieve_and_generate call can do: return a response or raise.
ServiceResponses ==
    {[output |-> "answer"]}
    \cup {[output |-> "answer", sessionId |-> s] : s \in {"abc123", "fresh-1"}}

Outcomes ==
    {[kind |-> "ok", response |-> r] : r \in ServiceResponses}
    \cup {[kind |-> "ClientError", response |-> r] : r \in ErrorResponses}
    \cup {[kind |-> "Exception", name |-> n] : n \in {"ReadTimeoutError", "ParamValidationError"}}

\* handle_query: the parameter bag built from the request body.
BuildRetrieveParams(query, session_id, guardrail_id) ==
    LET gen == (IF Truthy(guardrail_id)
                THEN [guardrailConfiguration |->
                         [guardrailId |-> guardrail_id, guardrailVersion |-> "DRAFT"]]
                ELSE EmptyDict)
               @@ [inferenceConfig |-> [textInferenceConfig |-> "maxTokens=1024"],
                   performanceConfig |-> [latency |-> "standard"]]
        base == [input |-> [text |-> query],
                 retrieveAndGenerateConfiguration |->
                    [type |-> "KNOWLEDGE_BASE",
                     knowledgeBaseConfiguration |->
                        [knowledgeBaseId |-> "kb-1",
                         modelArn |-> "amazon.nova-pro-v1:0",
                         retrievalConfiguration |->
                            [vectorSearchConfiguration |->
                                [numberOfResults |-> 5, overrideSearchType |-> "HYBRID"]],
                         generationConfiguration |-> gen]]]
    IN  IF Truthy(session_id) THEN SetKey(base, "sessionId", session_id) ELSE base

Queries == {"q1", "q2"}
SessionIds == {None, "", "abc123", "old-7"}
GuardrailIds == {None, "gr-1"}

\* error_code and error_message as the except clause reads them (lines 58-59)
ErrorCode(e) == Get(Get(e.response, "Error", EmptyDict), "Code", "Unknown")
ErrorMessage(e) == Get(Get(e.response, "Error", EmptyDict), "Message", <<>>)

\* mutant: the error code is not looked at
IsInvalidSessionErrorAnyCode(error_code, error_message) ==
    /\ Contains(IsNotValid, error_message)
    /\ Contains(SessionWithId, error_message)

\* the invalid-session test of lines 62-64
IsInvalidSessionError(error_code, error_message) ==
    /\ error_code = "ValidationException"
    /\ Contains(IsNotValid, error_message)
    /\ Contains(SessionWithId, error_message)

\* mutant: the retry is not guarded by the presence of sessionId
HasSessionIdAlways(p) == TRUE

\* 'sessionId' in retrieve_params (line 69)
HasSessionId(p) == "sessionId" \in DOMAIN p

\* mutant: sessionId is left in the bag
PopSessionIdKept(p) == p

\* mutant: the wrong key is popped
PopSessionIdWrongKey(p) == DelKey(p, "input")

\* mutant: the query text is lost with the sessionId
PopSessionIdAndQuery(p) == [DelKey(p, "sessionId") EXCEPT !.input = [text |-> ""]]

\* retrieve_params.pop('sessionId'): the same dict object, without the key
PopSessionId(p) == DelKey(p, "sessionId")

NoExc == [kind |-> "none"]
NoRet == [kind |-> "none"]

RetryInit ==
    /\ \E q \in Queries, s \in SessionIds, g \in GuardrailIds :
          /\ retrieve_params = BuildRetrieveParams(q, s, g)
          /\ params0 = BuildRetrieveParams(q, s, g)
    /\ calls = <<>>
    /\ outcomes = <<>>
    /\ exc = NoExc
    /\ ret = NoRet
    /\ rpc = "first"
    /\ response = EmptyDict
    /\ consumed = <<>>
    /\ result = EmptyDict
    /\ npc = "idle"
    /\ environ = EmptyDict
    /\ now = 0
    /\ start_time = -1
    /\ status = None
    /\ polls = 0
    /\ sleeps = 0
    /\ first_terminal = [at |-> 0, status |-> None]
    /\ pexc = [kind |-> "none"]
    /\ presult = [kind |-> "none"]
    /\ ppc = "idle"
    /\ body = [kind |-> "none"]
    /\ hret = [kind |-> "none"]
    /\ hpc = "idle"
    /\ request = [kind |-> "none"]
    /\ update_params = EmptyDict
    /\ service_calls = <<>>
    /\ gret = [kind |-> "none"]
    /\ gpc = "idle"

\* lines 52-57: the first call; a ClientError enters the except clause, any
\* other exception leaves the function
FirstCall ==
    /\ rpc = "first"
    /\ calls' = Append(calls, retrieve_params)
    /\ \E o \in Outcomes :
          /\ outcomes' = Append(outcomes, o)
          /\ \/ /\ o.kind = "ok"
                /\ ret' = [kind |-> "return", response |-> o.response,
                           session_changed |-> FALSE]
                /\ rpc' = "done"
                /\ exc' = exc
             \/ /\ o.kind = "ClientError"
                /\ exc' = o
                /\ rpc' = "except"
                /\ ret' = ret
             \/ /\ o.kind = "Exception"
                /\ ret' = [kind |-> "raise", error |-> o]
                /\ rpc' = "done"
                /\ exc' = exc
    /\ UNCHANGED <<retrieve_params, params0, nvars, pvars, qvars, gvars>>

\* lines 58-83 up to the retry call: classify the error, drop sessionId or re-raise
HandleClientError ==
    /\ rpc = "except"
    /\ IF IsInvalidSessionError(ErrorCode(exc), ErrorMessage(exc))
       THEN IF HasSessionId(retrieve_params)
            THEN /\ retrieve_params' = PopSessionId(retrieve_params)
                 /\ rpc' = "retry"
                 /\ ret' = ret
            ELSE /\ ret' = [kind |-> "raise", error |-> exc]
                 /\ rpc' = "done"
                 /\ retrieve_params' = retrieve_params
       ELSE /\ ret' = [kind |-> "raise", error |-> exc]
            /\ rpc' = "done"
            /\ retrieve_params' = retrieve_params
    /\ UNCHANGED <<params0, calls, outcomes, exc, nvars, pvars, qvars, gvars>>

\* mutant: a failed retry is reissued (up to three calls) instead of propagating
RetryCallAgain ==
    /\ rpc = "retry"
    /\ calls' = Append(calls, retrieve_params)
    /\ \E o \in Outcomes :
          /\ outcomes' = Append(outcomes, o)
          /\ \/ /\ o.kind = "ok"
                /\ ret' = [kind |-> "return", response |-> o.response,
                           session_changed |-> TRUE]
                /\ rpc' = "done"
             \/ /\ o.kind # "ok"
                /\ Len(calls) < 2
                /\ ret' = ret
                /\ rpc' = "retry"
             \/ /\ o.kind # "ok"
                /\ Len(calls) >= 2
                /\ ret' = [kind |-> "raise", error |-> o]
                /\ rpc' = "done"
    /\ UNCHANGED <<retrieve_params, params0, exc, nvars, pvars, qvars, gvars>>

\* mutant: the retried call's response is returned with the flag False
RetryCallUnflagged ==
    /\ rpc = "retry"
    /\ calls' = Append(calls, retrieve_params)
    /\ \E o \in Outcomes :
          /\ outcomes' = Append(outcomes, o)
          /\ \/ /\ o.kind = "ok"
                /\ ret' = [kind |-> "return", response |-> o.response,
                           session_changed |-> FALSE]
             \/ /\ o.kind # "ok"
                /\ ret' = [kind |-> "raise", error |-> o]
    /\ rpc' = "done"
    /\ UNCHANGED <<retrieve_params, params0, exc, nvars, pvars, qvars, gvars>>

\* lines 74-75: the reissued call; whatever it raises leaves the function
RetryCall ==
    /\ rpc = "retry"
    /\ calls' = Append(calls, retrieve_params)
    /\ \E o \in Outcomes :
          /\ outcomes' = Append(outcomes, o)
          /\ \/ /\ o.kind = "ok"
                /\ ret' = [kind |-> "return", response |-> o.response,
                           session_changed |-> TRUE]
             \/ /\ o.kind # "ok"
                /\ ret' = [kind |-> "raise", error |-> o]
    /\ rpc' = "done"
    /\ UNCHANGED <<retrieve_params, params0, exc, nvars, pvars, qvars, gvars>>

RetryNext == FirstCall \/ HandleClientError \/ RetryCall

SpecRetry == RetryInit /\ [][RetryNext]_vars

(***************************************************************************)
(* Claims about perform_retrieve_and_generate                              *)
(***************************************************************************)
\* The stale-session failure as the specification words it: a ClientError with
\* code ValidationException whose message contains both substrings.
StaleSessionFailure(o) ==
    /\ o.kind = "ClientError"
    /\ "Error" \in DOMAIN o.response
    /\ "Code" \in DOMAIN o.response.Error
    /\ o.response.Error.Code = "ValidationException"
    /\ "Message" \in DOMAIN o.response.Error
    /\ Contains(IsNotValid, o.response.Error.Message)
    /\ Contains(SessionWithId, o.response.Error.Message)

Raised(o) == [kind |-> "raise", error |-> o]

\* C1: when the first call fails with the stale-session validation error and
\* the bag holds sessionId, the call is reissued exactly once without
\* sessionId, and a successful second call is returned with
\* sessionReferenceChanged = TRUE.
C1_StaleSessionRetriedOnce ==
    (rpc = "done" /\ StaleSessionFailure(outcomes[1]) /\ "sessionId" \in DOMAIN params0)
    => /\ Len(calls) = 2
       /\ "sessionId" \in DOMAIN calls[1]
       /\ "sessionId" \notin DOMAIN calls[2]
       /\ outcomes[2].kind = "ok"
          => ret = [kind |-> "return", response |-> outcomes[2].response,
                    session_changed |-> TRUE]

C1_Witness ==
    /\ rpc = "done"
    /\ Len(calls) = 2
    /\ outcomes[1].response = [Error |-> [Code |-> "ValidationException", Message |-> MsgStale]]
    /\ params0["sessionId"] = "abc123"
    /\ outcomes[2].kind = "ok"
    /\ ret.kind = "return"
    /\ ret.session_changed

\* C2: the stale-session validation error with no sessionId in the bag is
\* not retried: one service call, and the original error propagates.
C2_NoSessionIdNoRetry ==
    (rpc = "done" /\ StaleSessionFailure(outcomes[1]) /\ "sessionId" \notin DOMAIN params0)
    => /\ Len(calls) = 1
       /\ ret = Raised(outcomes[1])

C2_Witness ==
    /\ rpc = "done"
    /\ StaleSessionFailure(outcomes[1])
    /\ "sessionId" \notin DOMAIN params0
    /\ ret.kind = "raise"

\* C3: a first-call failure that is not the stale-session validation error
\* (another code, a message lacking a substring, another exception class) is
\* never retried, with or without sessionId: one call, the same error raised.
C3_OtherFailuresNotRetried ==
    (rpc = "done" /\ outcomes[1].kind # "ok" /\ ~StaleSessionFailure(outcomes[1]))
    => /\ Len(calls) = 1
       /\ ret = Raised(outcomes[1])

C3_Witness ==
    /\ rpc = "done"
    /\ outcomes[1].kind = "ClientError"
    /\ outcomes[1].response = [Error |-> [Code |-> "ThrottlingException", Message |-> MsgStale]]
    /\ "sessionId" \in DOMAIN params0
    /\ ret.kind = "raise"
    /\ Len(calls) = 1

\* C4: at most two service calls per invocation; a failure of the reissued
\* call, of any kind, is propagated and no third call is made.
C4_AtMostTwoCalls ==
    /\ Len(calls) <= 2
    /\ (rpc = "done" /\ Len(calls) = 2 /\ outcomes[2].kind # "ok")
       => ret = Raised(outcomes[2])

C4_Witness ==
    /\ rpc = "done"
    /\ Len(calls) = 2
    /\ StaleSessionFailure(outcomes[2])
    /\ ret = Raised(outcomes[2])

\* C5 as stated: the caller's bag is the same after the call as before it, on
\* every path.
C5_BagUnchanged ==
    rpc = "done" => retrieve_params = params0

\* C5 amended: the caller's bag is unchanged on every path but the retry path;
\* there sessionId is removed from the caller's own bag, every other key keeps
\* its value, and the reissued call is made with that same bag.
C5_BagMutatedOnlyOnRetry ==
    rpc = "done"
    => IF Len(calls) = 2
       THEN /\ DOMAIN retrieve_params = DOMAIN params0 \ {"sessionId"}
            /\ \A k \in DOMAIN retrieve_params : retrieve_params[k] = params0[k]
            /\ calls[2] = retrieve_params
            /\ calls[1] = params0
       ELSE retrieve_params = params0

C5_Witness ==
    /\ rpc = "done"
    /\ Len(calls) = 2
    /\ "sessionId" \in DOMAIN params0
    /\ "sessionId" \notin DOMAIN retrieve_params
    /\ ret.kind = "return"

(***************************************************************************)
(* InvokeAgent.py: process_agent_response                                  *)
(*                                                                         *)
(* A Python value whose type the code tests or depends on is a record      *)
(* tagged with its type: PyDict, PyObject (attribute access), PyBytes,     *)
(* PyStr, PyList, PyNone.  Events, citations, references and the result    *)
(* are always dicts and are written as plain functions.  Text is a         *)
(* sequence of Unicode code points, bytes a sequence of 0..255.            *)
(***************************************************************************)
PyDict(d) == [py |-> "dict", d |-> d]
PyObject(attrs) == [py |-> "object", attrs |-> attrs]
PyBytes(b) == [py |-> "bytes", b |-> b]
PyStr(chars) == [py |-> "str", chars |-> chars]
PyList(elems) == [py |-> "list", elems |-> elems]
PyNone == [py |-> "NoneType"]

\* isinstance(x, dict), isinstance(x, bytes), hasattr(x, name)
IsDict(x) == x.py = "dict"
IsBytes(x) == x.py = "bytes"
HasAttr(x, name) == x.py = "object" /\ name \in DOMAIN x.attrs

\* bool(x) for the values a bytes attribute can hold
PyTruthy(x) ==
    CASE x.py = "bytes" -> x.b # <<>>
      [] x.py = "str" -> x.chars # <<>>
      [] x.py = "NoneType" -> FALSE
      [] OTHER -> TRUE

\* The characters of the keys that are looked up in values that may be strings.
KeyChars(k) ==
    CASE k = "text" -> <<"t","e","x","t">>
      [] k = "span" -> <<"s","p","a","n">>
      [] k = "textResponsePart" -> <<"t","e","x","t","R","e","s","p","o","n","s","e","P","a","r","t">>
      [] k = "citations" -> <<"c","i","t","a","t","i","o","n","s">>
      [] OTHER -> <<"?", k>>

\* `k in x`: key membership for a dict, substring test for a str, element
\* test for a list (of dicts: never equal to a str); TypeError otherwise.
PyIn(k, x) ==
    CASE x.py = "dict" -> IF k \in DOMAIN x.d THEN "True" ELSE "False"
      [] x.py = "str" -> IF Contains(KeyChars(k), x.chars) THEN "True" ELSE "False"
      [] x.py = "list" -> "False"
      [] OTHER -> "TypeError"

\* A step of the normalizer either yields a value or raises.
Ok(v) == [raised |-> None, val |-> v]
Raise(msg) == [raised |-> msg, val |-> None]
IsOk(r) == r.raised = None

TypeErrorNotIterable == "argument of type 'NoneType' is not iterable"
TypeErrorStrIndex == "string indices must be integers"
AttributeErrorGet == "object has no attribute 'get'"
AttributeErrorDecode == "object has no attribute 'decode'"
UnicodeDecodeError == "'utf-8' codec can't decode byte"
StreamError == "An error occurred while reading the event stream"

\* bytes.decode('utf-8'), strict: the byte length of the character that
\* starts with lead byte b1 (0 when b1 cannot start a character)
Utf8Length(b1) ==
    IF b1 < 128 THEN 1
    ELSE IF b1 \in 194..223 THEN 2
    ELSE IF b1 \in 224..239 THEN 3
    ELSE IF b1 \in 240..244 THEN 4
    ELSE 0

\* the range allowed for the second byte after lead byte b1
Utf8Second(b1) ==
    CASE b1 = 224 -> 160..191
      [] b1 = 237 -> 128..159
      [] b1 = 240 -> 144..191
      [] b1 = 244 -> 128..143
      [] OTHER -> 128..191

Utf8CodePoint(b, n) ==
    CASE n = 1 -> b[1]
      [] n = 2 -> (b[1] - 192) * 64 + (b[2] - 128)
      [] n = 3 -> (b[1] - 224) * 4096 + (b[2] - 128) * 64 + (b[3] - 128)
      [] n = 4 -> (b[1] - 240) * 262144 + (b[2] - 128) * 4096
                  + (b[3] - 128) * 64 + (b[4] - 128)

RECURSIVE DecodeUtf8(_)
DecodeUtf8(b) ==
    IF b = <<>> THEN Ok(<<>>)
    ELSE LET n == Utf8Length(b[1])
         IN  IF n = 0 \/ Len(b) < n THEN Raise(UnicodeDecodeError)
             ELSE IF n >= 2 /\ b[2] \notin Utf8Second(b[1]) THEN Raise(UnicodeDecodeError)
             ELSE IF \E i \in 3..n : b[i] \notin 128..191 THEN Raise(UnicodeDecodeError)
             ELSE LET rest == DecodeUtf8(SubSeq(b, n + 1, Len(b)))
                  IN  IF IsOk(rest)
                      THEN Ok(<<Utf8CodePoint(b, n)>> \o rest.val)
                      ELSE rest

\* x.decode('utf-8') for a value read from a bytes field
PyDecode(x) == IF IsBytes(x) THEN DecodeUtf8(x.b) ELSE Raise(AttributeErrorDecode)

\* mutant: the citations key is not initialised
InitialResultNoCitations == [text |-> <<>>, traces |-> <<>>]

\* mutant: the error key is initialised with the others
InitialResultWithError ==
    [text |-> <<>>, citations |-> <<>>, traces |-> <<>>, error |-> EmptyDict]

\* lines 161-165
InitialResult == [text |-> <<>>, citations |-> <<>>, traces |-> <<>>]

\* mutant: the chunk text replaces the accumulated text
AppendTextReplacing(text, chunk_text) == chunk_text

\* result['text'] += chunk_text
AppendText(text, chunk_text) == text \o chunk_text

AddText(res, chunk_text) == [res EXCEPT !.text = AppendText(res.text, chunk_text)]

\* lines 176-191: the text of a chunk
ProcessChunkText(res, chunk) ==
    IF HasAttr(chunk, "bytes") /\ PyTruthy(chunk.attrs.bytes)
    THEN LET t == PyDecode(chunk.attrs.bytes)
         IN  IF IsOk(t) THEN Ok(AddText(res, t.val)) ELSE t
    ELSE IF IsDict(chunk)
    THEN IF "bytes" \in DOMAIN chunk.d
         THEN IF IsBytes(chunk.d.bytes)
              THEN LET t == PyDecode(chunk.d.bytes)
                   IN  IF IsOk(t) THEN Ok(AddText(res, t.val)) ELSE t
              ELSE Ok(res)
         ELSE IF "text" \in DOMAIN chunk.d
         THEN Ok(AddText(res, chunk.d.text))
         ELSE Ok(res)
    ELSE Ok(res)

\* lines 201-207: text and span of a citation's generatedResponsePart.textResponsePart
TextSpan(citation) ==
    IF "generatedResponsePart" \notin DOMAIN citation THEN Ok(EmptyDict)
    ELSE LET g == citation.generatedResponsePart
             inG == PyIn("textResponsePart", g)
         IN  IF inG = "TypeError" THEN Raise(TypeErrorNotIterable)
             ELSE IF inG = "False" THEN Ok(EmptyDict)
             ELSE IF ~IsDict(g) THEN Raise(TypeErrorStrIndex)
             ELSE LET text_part == g.d.textResponsePart
                      inText == PyIn("text", text_part)
                      inSpan == PyIn("span", text_part)
                  IN  IF inText = "TypeError" THEN Raise(TypeErrorNotIterable)
                      ELSE IF inText = "True" /\ ~IsDict(text_part) THEN Raise(TypeErrorStrIndex)
                      ELSE IF inSpan = "True" /\ ~IsDict(text_part) THEN Raise(TypeErrorStrIndex)
                      ELSE Ok([k \in {"text", "span"} \cap
                                     (IF IsDict(text_part) THEN DOMAIN text_part.d ELSE {})
                                 |-> text_part.d[k]])

\* lines 213-231: one output reference
RefData(ref) ==
    LET keys == (IF /\ "content" \in DOMAIN ref
                    /\ IsDict(ref.content)
                    /\ "text" \in DOMAIN ref.content.d
                 THEN {"content"} ELSE {})
                \cup ({"location", "metadata"} \cap DOMAIN ref)
    IN  [k \in keys |-> IF k = "content" THEN ref.content.d.text ELSE ref[k]]

\* lines 211-231: the references list of a citation
References(retrievedReferences) ==
    [i \in 1..Len(retrievedReferences) |-> RefData(retrievedReferences[i])]

\* lines 199-233: the record composed for one citation
ComposeCitation(citation) ==
    LET ts == TextSpan(citation)
    IN  IF ~IsOk(ts) THEN ts
        ELSE IF "retrievedReferences" \in DOMAIN citation
        THEN Ok(SetKey(ts.val, "references", References(citation.retrievedReferences)))
        ELSE ts

\* lines 198-235: every citation of the list is composed and appended in order
RECURSIVE AppendCitations(_, _)
AppendCitations(res, citations) ==
    IF citations = <<>> THEN Ok(res)
    ELSE LET c == ComposeCitation(Head(citations))
         IN  IF IsOk(c)
             THEN AppendCitations([res EXCEPT !.citations = Append(@, c.val)],
                                  Tail(citations))
             ELSE c

\* lines 193-237: citations of a mapping-style chunk
ProcessCitations(res, chunk) ==
    IF IsDict(chunk) /\ "attribution" \in DOMAIN chunk.d
    THEN LET attribution == chunk.d.attribution
             inA == PyIn("citations", attribution)
         IN  IF inA = "TypeError" THEN Raise(TypeErrorNotIterable)
             ELSE IF inA = "False" THEN Ok(res)
             ELSE IF ~IsDict(attribution) THEN Raise(TypeErrorStrIndex)
             ELSE AppendCitations(res, attribution.d.citations)
    ELSE Ok(res)

CitationFromAttributeAccess == [text |-> "Citation from attribute access"]

\* lines 239-248: citations of an attribute-style chunk; the try swallows
\* whatever the attribute access raises
AltCitations(res, chunk) ==
    IF /\ HasAttr(chunk, "attribution")
       /\ HasAttr(chunk.attrs.attribution, "citations")
       /\ chunk.attrs.attribution.attrs.citations.py = "list"
    THEN Ok([res EXCEPT !.citations =
                @ \o [i \in 1..Len(chunk.attrs.attribution.attrs.citations.elems)
                        |-> CitationFromAttributeAccess]])
    ELSE Ok(res)

\* lines 172-248
ProcessChunk(res, event) ==
    IF "chunk" \in DOMAIN event
    THEN LET text == ProcessChunkText(res, event.chunk)
         IN  IF ~IsOk(text) THEN text
             ELSE LET cited == ProcessCitations(text.val, event.chunk)
                  IN  IF ~IsOk(cited) THEN cited
                      ELSE AltCitations(cited.val, event.chunk)
    ELSE Ok(res)

TraceKeys == {"agentId", "agentAliasId", "agentVersion", "sessionId"}

\* lines 264-275
GuardrailRecord(guardrail_trace) ==
    [k \in {"action", "traceId"}
          \cup ({"inputAssessments", "outputAssessments"} \cap DOMAIN guardrail_trace)
       |-> Get(guardrail_trace, k, None)]

\* lines 278-282
OrchestrationRecord(orchestration_trace) ==
    [modelInvocationInput |-> Get(orchestration_trace, "modelInvocationInput", None),
     modelInvocationOutput |-> Get(orchestration_trace, "modelInvocationOutput", None)]

\* lines 252-282: the record composed for one trace block
ComposeTrace(trace) ==
    IF ~IsDict(trace) THEN Raise(TypeErrorNotIterable)
    ELSE LET basic == [k \in TraceKeys \cap DOMAIN trace.d |-> trace.d[k]]
         IN  IF "trace" \notin DOMAIN trace.d THEN Ok(basic)
             ELSE LET inner_trace == trace.d.trace
                  IN  IF ~IsDict(inner_trace) THEN Raise(TypeErrorNotIterable)
                      ELSE IF /\ "guardrailTrace" \in DOMAIN inner_trace.d
                              /\ ~IsDict(inner_trace.d.guardrailTrace)
                      THEN Raise(AttributeErrorGet)
                      ELSE IF /\ "orchestrationTrace" \in DOMAIN inner_trace.d
                              /\ ~IsDict(inner_trace.d.orchestrationTrace)
                      THEN Raise(AttributeErrorGet)
                      ELSE LET withG ==
                                 IF "guardrailTrace" \in DOMAIN inner_trace.d
                                 THEN SetKey(basic, "guardrail",
                                             GuardrailRecord(inner_trace.d.guardrailTrace.d))
                                 ELSE basic
                           IN  IF "orchestrationTrace" \in DOMAIN inner_trace.d
                               THEN Ok(SetKey(withG, "orchestration",
                                       OrchestrationRecord(inner_trace.d.orchestrationTrace.d)))
                               ELSE Ok(withG)

\* mutant: the record is put in front of the earlier ones
ProcessTracePrepends(res, event) ==
    IF "trace" \in DOMAIN event
    THEN LET t == ComposeTrace(event.trace)
         IN  IF IsOk(t) THEN Ok([res EXCEPT !.traces = <<t.val>> \o @]) ELSE t
    ELSE Ok(res)

\* lines 250-284
ProcessTrace(res, event) ==
    IF "trace" \in DOMAIN event
    THEN LET t == ComposeTrace(event.trace)
         IN  IF IsOk(t) THEN Ok([res EXCEPT !.traces = Append(@, t.val)]) ELSE t
    ELSE Ok(res)

\* lines 287-290, in the order the loop visits them
ErrorTypes ==
    <<"accessDeniedException", "badGatewayException", "conflictException",
      "dependencyFailedException", "internalServerException", "modelNotReadyException",
      "resourceNotFoundException", "serviceQuotaExceededException",
      "throttlingException", "validationException">>

\* mutant: an error already recorded is kept
SetErrorKeepFirst(res, error) ==
    IF "error" \in DOMAIN res THEN res ELSE SetKey(res, "error", error)

\* lines 292-295: result['error'] = {...}
SetError(res, error) == SetKey(res, "error", error)

\* lines 286-296: the error variants present in the event, in list order
RECURSIVE ProcessErrorsFrom(_, _, _)
ProcessErrorsFrom(res, event, i) ==
    IF i > Len(ErrorTypes) THEN Ok(res)
    ELSE IF ErrorTypes[i] \in DOMAIN event
    THEN IF IsDict(event[ErrorTypes[i]])
         THEN ProcessErrorsFrom(
                  SetError(res, [type |-> ErrorTypes[i],
                                 message |-> Get(event[ErrorTypes[i]].d, "message",
                                                 "Unknown error")]),
                  event, i + 1)
         ELSE Raise(AttributeErrorGet)
    ELSE ProcessErrorsFrom(res, event, i + 1)

ProcessErrors(res, event) == ProcessErrorsFrom(res, event, 1)

\* mutant: once an error is recorded the rest of the stream is ignored
ProcessEventStopsAfterError(res, event) ==
    IF "error" \in DOMAIN res THEN Ok(res)
    ELSE LET chunked == ProcessChunk(res, event)
         IN  IF ~IsOk(chunked) THEN chunked
             ELSE LET traced == ProcessTrace(chunked.val, event)
                  IN  IF ~IsOk(traced) THEN traced
                      ELSE ProcessErrors(traced.val, event)

\* lines 170-296: the loop body for one event
ProcessEvent(res, event) ==
    LET chunked == ProcessChunk(res, event)
    IN  IF ~IsOk(chunked) THEN chunked
        ELSE LET traced == ProcessTrace(chunked.val, event)
             IN  IF ~IsOk(traced) THEN traced
                 ELSE ProcessErrors(traced.val, event)

\* lines 298-302
Finalize(res, resp) ==
    [k \in DOMAIN res \cup ({"contentType", "memoryId"} \cap DOMAIN resp)
       |-> IF k \in DOMAIN res THEN res[k] ELSE resp[k]]

\* 'Error processing agent response'
ErrorProcessingText == <<69,114,114,111,114,32,112,114,111,99,101,115,115,105,110,103,32,97,103,101,110,116,32,114,101,115,112,111,110,115,101>>

\* mutant: the fallback keeps the citations and traces keys
FallbackFourKeys(msg) ==
    [text |-> ErrorProcessingText, error |-> msg, citations |-> <<>>, traces |-> <<>>]

\* lines 311-317
Fallback(msg) == [text |-> ErrorProcessingText, error |-> msg]

(***************************************************************************)
(* The events the agent's stream may deliver.                              *)
(***************************************************************************)
\* b"Hel", b"lo", b"\xc3\xa9" (one two-byte character), b"\xc3" (cut short)
BytesHel == <<72, 101, 108>>
BytesLo == <<108, 111>>
BytesEAcute == <<195, 169>>
BytesTruncated == <<195>>

RefFull == [content |-> PyDict([text |-> "passage one"]),
            location |-> "s3://bucket/a", metadata |-> "m1"]
RefNoContent == [location |-> "s3://bucket/b"]
RefStrContent == [content |-> PyStr(<<"n","/","a">>), metadata |-> "m3"]
RefContentNoText == [content |-> PyDict(EmptyDict)]

CitFull ==
    [generatedResponsePart |->
        PyDict([textResponsePart |-> PyDict([text |-> "cited text", span |-> "0-5"])]),
     retrievedReferences |-> <<RefFull, RefNoContent>>]
CitRefsOnly == [retrievedReferences |-> <<RefStrContent, RefContentNoText, RefFull>>]
CitTextOnly ==
    [generatedResponsePart |-> PyDict([textResponsePart |-> PyDict([text |-> "other text"])])]
CitNoPart == [generatedResponsePart |-> PyDict(EmptyDict)]
CitStrGenerated == [generatedResponsePart |-> PyStr(<<"n","/","a">>)]
CitNoneGenerated == [generatedResponsePart |-> PyNone]
CitStrTextPart ==
    [generatedResponsePart |-> PyDict([textResponsePart |-> PyStr(<<"p","l","a","i","n"," ","t","e","x","t">>)])]
CitNoneTextPart == [generatedResponsePart |-> PyDict([textResponsePart |-> PyNone])]

DictChunk(d) == [chunk |-> PyDict(d)]
ObjectChunk(attrs) == [chunk |-> PyObject(attrs)]
Attribution(citations) == PyDict([citations |-> citations])
ObjectAttribution(citations) == PyObject([citations |-> PyList(citations)])

ChunkEvents ==
    { DictChunk([bytes |-> PyBytes(BytesHel)]),
      DictChunk([bytes |-> PyBytes(BytesLo)]),
      DictChunk([bytes |-> PyBytes(<<>>)]),
      DictChunk([bytes |-> PyBytes(BytesTruncated)]),
      DictChunk([bytes |-> PyStr(<<"n","/","a">>), text |-> <<72,105>>]),
      DictChunk([text |-> <<72,105>>]),
      DictChunk(EmptyDict),
      DictChunk([bytes |-> PyBytes(BytesEAcute), attribution |-> Attribution(<<CitFull>>)]),
      DictChunk([bytes |-> PyBytes(BytesLo), attribution |-> PyDict(EmptyDict)]),
      DictChunk([bytes |-> PyBytes(BytesHel), attribution |-> PyNone]),
      DictChunk([bytes |-> PyBytes(BytesHel),
                 attribution |-> Attribution(<<CitRefsOnly, CitStrGenerated, CitTextOnly>>)]),
      DictChunk([attribution |-> Attribution(<<CitNoPart, CitFull>>)]),
      DictChunk([bytes |-> PyBytes(BytesLo),
                 attribution |-> Attribution(<<CitFull, CitNoneGenerated>>)]),
      DictChunk([bytes |-> PyBytes(BytesLo), attribution |-> Attribution(<<CitStrTextPart>>)]),
      DictChunk([bytes |-> PyBytes(BytesLo), attribution |-> Attribution(<<CitNoneTextPart>>)]),
      ObjectChunk([bytes |-> PyBytes(BytesHel)]),
      ObjectChunk([bytes |-> PyBytes(<<>>)]),
      ObjectChunk([bytes |-> PyBytes(BytesEAcute),
                   attribution |-> ObjectAttribution(<<CitFull>>)]),
      ObjectChunk([bytes |-> PyBytes(BytesLo), attribution |-> PyNone]),
      [chunk |-> PyBytes(BytesHel)] }

GuardrailTrace ==
    [action |-> "INTERVENED", traceId |-> "t-1", inputAssessments |-> "ia-1"]

TraceEvents ==
    { [trace |-> PyDict(EmptyDict)],
      [trace |-> PyDict([agentId |-> "A1", sessionId |-> "S1"])],
      [trace |-> PyDict([agentId |-> "A1", agentAliasId |-> "AL", agentVersion |-> "1",
                         sessionId |-> "S1",
                         trace |-> PyDict([guardrailTrace |-> PyDict(GuardrailTrace)])])],
      [trace |-> PyDict([agentId |-> "A1",
                         trace |-> PyDict([orchestrationTrace |->
                                      PyDict([modelInvocationInput |-> "in-1"])])])],
      [trace |-> PyDict([sessionId |-> "S1",
                         trace |-> PyDict([guardrailTrace |-> PyDict([traceId |-> "t-2",
                                                  outputAssessments |-> "oa-1"]),
                                           orchestrationTrace |->
                                               PyDict([modelInvocationOutput |-> "out-1"])])])],
      [trace |-> PyDict([trace |-> PyDict(EmptyDict)])],
      [trace |-> PyNone],
      [trace |-> PyDict([agentId |-> "A1", trace |-> PyNone])] }

ErrorEvents ==
    { [throttlingException |-> PyDict([message |-> "rate exceeded"])],
      [validationException |-> PyDict([message |-> "bad input"])],
      [accessDeniedException |-> PyDict(EmptyDict)],
      [internalServerException |-> PyNone] }

\* an event none of whose keys the loop looks for
OtherEvents == { [returnControl |-> PyDict(EmptyDict)] }

Events == ChunkEvents \cup TraceEvents \cup ErrorEvents \cup OtherEvents

\* The response of invoke_agent: completion is the event stream.
Responses ==
    { [completion |-> "EventStream"],
      [completion |-> "EventStream", contentType |-> "application/json", memoryId |-> "mem-1"],
      [contentType |-> "application/json"] }

\* the number of events a stream of the model delivers at most
MaxEvents == 3

NormalizeInit ==
    /\ response \in Responses
    /\ consumed = <<>>
    /\ result = InitialResult
    /\ npc = "iter"
    /\ retrieve_params = EmptyDict
    /\ params0 = EmptyDict
    /\ calls = <<>>
    /\ outcomes = <<>>
    /\ exc = NoExc
    /\ ret = NoRet
    /\ rpc = "idle"
    /\ environ = EmptyDict
    /\ now = 0
    /\ start_time = -1
    /\ status = None
    /\ polls = 0
    /\ sleeps = 0
    /\ first_terminal = [at |-> 0, status |-> None]
    /\ pexc = [kind |-> "none"]
    /\ presult = [kind |-> "none"]
    /\ ppc = "idle"
    /\ body = [kind |-> "none"]
    /\ hret = [kind |-> "none"]
    /\ hpc = "idle"
    /\ request = [kind |-> "none"]
    /\ update_params = EmptyDict
    /\ service_calls = <<>>
    /\ gret = [kind |-> "none"]
    /\ gpc = "idle"

\* lines 170-296, and 311-317 when the body raises: the stream delivers one
\* more event and the loop body runs on it
NextEvent ==
    /\ npc = "iter"
    /\ "completion" \in DOMAIN response
    /\ Len(consumed) < MaxEvents
    /\ \E event \in Events :
          /\ consumed' = Append(consumed, event)
          /\ LET r == ProcessEvent(result, event)
             IN  IF IsOk(r)
                 THEN result' = r.val /\ npc' = "iter"
                 ELSE result' = Fallback(r.raised) /\ npc' = "fallback"
    /\ UNCHANGED <<response, rvars, pvars, qvars, gvars>>

\* lines 298-309: the stream is exhausted (or there is none): return result
StreamEnd ==
    /\ npc = "iter"
    /\ result' = Finalize(result, response)
    /\ npc' = "returned"
    /\ UNCHANGED <<response, consumed, rvars, pvars, qvars, gvars>>

\* lines 170, 311-317: the iteration itself raises
StreamRaises ==
    /\ npc = "iter"
    /\ "completion" \in DOMAIN response
    /\ result' = Fallback(StreamError)
    /\ npc' = "fallback"
    /\ UNCHANGED <<response, consumed, rvars, pvars, qvars, gvars>>

NormalizeNext == NextEvent \/ StreamEnd \/ StreamRaises

SpecNormalize == NormalizeInit /\ [][NormalizeNext]_vars

\* lines 170-296: the loop over a whole stream
RECURSIVE ProcessEvents(_, _)
ProcessEvents(res, events) ==
    IF events = <<>> THEN Ok(res)
    ELSE LET r == ProcessEvent(res, Head(events))
         IN  IF IsOk(r) THEN ProcessEvents(r.val, Tail(events)) ELSE r

\* lines 160-317: what process_agent_response returns for a response whose
\* stream delivers `events` and ends
Normalize(resp, events) ==
    IF "completion" \in DOMAIN resp
    THEN LET r == ProcessEvents(InitialResult, events)
         IN  IF IsOk(r) THEN Finalize(r.val, resp) ELSE Fallback(r.raised)
    ELSE Finalize(InitialResult, resp)

(***************************************************************************)
(* Claims about process_agent_response                                     *)
(***************************************************************************)
\* no exception has occurred so far
NoException == npc \in {"iter", "returned"}

\* the iteration of the stream itself raised
StreamFailed == npc = "fallback" /\ result.error = StreamError

\* The payload text of an event: the decoded bytes of a chunk that carries
\* bytes (as an attribute or as a mapping field), else the text field of a
\* mapping chunk, else nothing.
ChunkPayload(event) ==
    IF "chunk" \notin DOMAIN event THEN <<>>
    ELSE LET c == event.chunk
         IN  IF c.py = "object" /\ "bytes" \in DOMAIN c.attrs /\ c.attrs.bytes.py = "bytes"
             THEN DecodeUtf8(c.attrs.bytes.b).val
             ELSE IF c.py = "dict" /\ "bytes" \in DOMAIN c.d
             THEN IF c.d.bytes.py = "bytes" THEN DecodeUtf8(c.d.bytes.b).val ELSE <<>>
             ELSE IF c.py = "dict" /\ "text" \in DOMAIN c.d
             THEN c.d.text
             ELSE <<>>

RECURSIVE ConcatPayloads(_)
ConcatPayloads(events) ==
    IF events = <<>> THEN <<>>
    ELSE ChunkPayload(Head(events)) \o ConcatPayloads(Tail(events))

\* C6: while no exception occurs, after each event the accumulated text is
\* the concatenation, in stream order, of the chunk payloads delivered so
\* far (so each event appends its payload to the previous text), and so is
\* the final text.
C6_TextIsConcatenation ==
    NoException => result.text = ConcatPayloads(consumed)

C6_Witness ==
    /\ npc = "returned"
    /\ consumed = <<DictChunk([bytes |-> PyBytes(BytesHel)]),
                    DictChunk([bytes |-> PyBytes(BytesLo)])>>
    /\ result.text = <<72, 101, 108, 108, 111>>

NoChunkEvents == \A i \in 1..Len(consumed) : "chunk" \notin DOMAIN consumed[i]

\* the ten error-variant names: access-denied, bad-gateway, conflict,
\* dependency-failed, internal-server, model-not-ready, resource-not-found,
\* service-quota-exceeded, throttling, validation
RecognizedErrorKeys ==
    {"accessDeniedException", "badGatewayException", "conflictException",
     "dependencyFailedException", "internalServerException", "modelNotReadyException",
     "resourceNotFoundException", "serviceQuotaExceededException",
     "throttlingException", "validationException"}

\* Every trace block, nested trace payload, guardrail and orchestration block
\* and error payload of the event is a mapping.
WellFormedEvent(event) ==
    /\ "trace" \in DOMAIN event =>
          /\ event.trace.py = "dict"
          /\ "trace" \in DOMAIN event.trace.d =>
                /\ event.trace.d.trace.py = "dict"
                /\ \A k \in {"guardrailTrace", "orchestrationTrace"}
                           \cap DOMAIN event.trace.d.trace.d :
                       event.trace.d.trace.d[k].py = "dict"
    /\ \A k \in RecognizedErrorKeys \cap DOMAIN event : event[k].py = "dict"

\* C7 as stated: a stream with no chunk event, whatever trace and error
\* events it holds, well-formed or not, ends with text = "" and
\* citations = [], both keys present.
C7_NoChunksEmptyAlways ==
    (npc \in {"returned", "fallback"} /\ NoChunkEvents /\ ~StreamFailed)
    => /\ {"text", "citations"} \subseteq DOMAIN result
       /\ result.text = <<>>
       /\ result.citations = <<>>

\* C7 amended: a stream with no chunk event whose trace and error events are
\* well-formed, and whose iteration does not raise, is normalized without
\* exception and has text = "" and citations = [] throughout, both keys
\* present; when an exception occurs the two-key fallback is returned, whose
\* text is the fixed message and which has no citations key.
C7_NoChunksEmptyUnlessRaised ==
    NoChunkEvents
    => /\ (\A i \in 1..Len(consumed) : WellFormedEvent(consumed[i]))
             => (NoException \/ StreamFailed)
       /\ NoException
             => /\ {"text", "citations"} \subseteq DOMAIN result
                /\ result.text = <<>>
                /\ result.citations = <<>>
       /\ npc = "fallback"
             => /\ DOMAIN result = {"text", "error"}
                /\ result.text = ErrorProcessingText

C7_Witness ==
    /\ npc = "returned"
    /\ NoChunkEvents
    /\ Len(consumed) = 2
    /\ "trace" \in DOMAIN consumed[1]
    /\ "throttlingException" \in DOMAIN consumed[2]
    /\ result.text = <<>>
    /\ result.citations = <<>>

\* C8 as stated: without exception the returned record has the four keys
\* text, citations, traces and error.
C8_FourKeysAlways ==
    npc = "returned" => {"text", "citations", "traces", "error"} \subseteq DOMAIN result

\* C8 amended: without exception the record has the three keys text,
\* citations and traces, and has the key error exactly when the stream held
\* a recognized error-variant event; the exception fallback has exactly the
\* two keys text and error.
C8_ThreeKeysErrorOptional ==
    /\ NoException
          => /\ {"text", "citations", "traces"} \subseteq DOMAIN result
             /\ "error" \in DOMAIN result
                   <=> \E i \in 1..Len(consumed) :
                          RecognizedErrorKeys \cap DOMAIN consumed[i] # {}
    /\ npc = "fallback" => DOMAIN result = {"text", "error"}

C8_Witness ==
    /\ npc = "returned"
    /\ Len(consumed) = 2
    /\ "chunk" \in DOMAIN consumed[1]
    /\ "trace" \in DOMAIN consumed[2]
    /\ "error" \notin DOMAIN result
    /\ result.text # <<>>
    /\ Len(result.traces) = 1

\* The other representation of a chunk that carries bytes and either no
\* attribution block or one with a citations list: mapping <-> attributes,
\* same bytes, same citations.  Any other event is left as it is.
TwinAttribution(a) ==
    IF a.py = "dict" THEN PyObject([citations |-> PyList(a.d.citations)])
    ELSE PyDict([citations |-> a.attrs.citations.elems])

TwinnableAttribution(a) ==
    \/ a.py = "dict" /\ "citations" \in DOMAIN a.d
    \/ a.py = "object" /\ "citations" \in DOMAIN a.attrs /\ a.attrs.citations.py = "list"

TwinFields(f) ==
    [k \in DOMAIN f |-> IF k = "attribution" THEN TwinAttribution(f[k]) ELSE f[k]]

Twinnable(f) ==
    /\ DOMAIN f \subseteq {"bytes", "attribution"}
    /\ "bytes" \in DOMAIN f
    /\ f.bytes.py = "bytes"
    /\ "attribution" \in DOMAIN f => TwinnableAttribution(f.attribution)

TwinEvent(event) ==
    IF "chunk" \notin DOMAIN event THEN event
    ELSE IF event.chunk.py = "dict" /\ Twinnable(event.chunk.d)
    THEN [event EXCEPT !.chunk = PyObject(TwinFields(event.chunk.d))]
    ELSE IF event.chunk.py = "object" /\ Twinnable(event.chunk.attrs)
    THEN [event EXCEPT !.chunk = PyDict(TwinFields(event.chunk.attrs))]
    ELSE event

TwinStream(events) == [i \in 1..Len(events) |-> TwinEvent(events[i])]

\* C9: a stream and the stream that delivers each bytes-carrying chunk in the
\* other representation (mapping with a bytes field / object with a bytes
\* attribute, same bytes, same attribution block) normalize to the same
\* result.
C9_RepresentationTransparent ==
    npc = "returned" => result = Normalize(response, TwinStream(consumed))

\* the last event of the stream so far that bears a recognized error key
LastErrorEvent ==
    consumed[CHOOSE i \in 1..Len(consumed) :
                /\ RecognizedErrorKeys \cap DOMAIN consumed[i] # {}
                /\ \A j \in (i + 1)..Len(consumed) :
                      RecognizedErrorKeys \cap DOMAIN consumed[j] = {}]

ExpectedError(event) ==
    LET k == CHOOSE x \in RecognizedErrorKeys : x \in DOMAIN event
    IN  [type |-> k,
         message |-> IF "message" \in DOMAIN event[k].d
                     THEN event[k].d.message ELSE "Unknown error"]

\* C10: while no exception occurs, once an error-variant event has been
\* delivered, error is {type: its key, message: its message field or
\* "Unknown error"} of the last such event: a later one overwrites.
\* For each of the ten names, an event bearing it sets error as well when
\* it is the first event of the stream.
C10_LastErrorWins ==
    /\ (NoException /\ \E i \in 1..Len(consumed) :
                           RecognizedErrorKeys \cap DOMAIN consumed[i] # {})
       => /\ "error" \in DOMAIN result
          /\ result.error = ExpectedError(LastErrorEvent)
    /\ (npc = "iter" /\ consumed = <<>>)
       => \A k \in RecognizedErrorKeys :
             /\ ProcessEvent(result, k :> PyDict([message |-> "rate exceeded"])).val.error
                   = [type |-> k, message |-> "rate exceeded"]
             /\ ProcessEvent(result, k :> PyDict(EmptyDict)).val.error
                   = [type |-> k, message |-> "Unknown error"]

C10_Witness ==
    /\ npc = "returned"
    /\ consumed = <<[throttlingException |-> PyDict([message |-> "rate exceeded"])],
                    [accessDeniedException |-> PyDict(EmptyDict)]>>
    /\ result.error = [type |-> "accessDeniedException", message |-> "Unknown error"]

\* an event that bears one of the ten error-variant names
IsErrorEvent(event) == RecognizedErrorKeys \cap DOMAIN event # {}

NotErrorEvent(event) == ~IsErrorEvent(event)

\* the payload of every error variant delivered so far is a mapping, as the
\* service delivers it
ErrorPayloadsAreMappings ==
    \A i \in 1..Len(consumed) :
        \A k \in RecognizedErrorKeys \cap DOMAIN consumed[i] : consumed[i][k].py = "dict"

\* the stream delivered so far with its error-variant events left out
WithoutErrorEvents == SelectSeq(consumed, NotErrorEvent)

\* C11: an error-variant event (payload a mapping) does not abort
\* normalization: at every point of the stream, text, citations and traces
\* are those of the same stream without its error-variant events, so every
\* chunk, citation and trace event after an error event is accumulated as if
\* the error event had not occurred; and the stream with the error events
\* raises exactly when the stream without them does, with the same fallback.
C11_ErrorDoesNotAbort ==
    (ErrorPayloadsAreMappings /\ ~StreamFailed)
    => LET r == ProcessEvents(InitialResult, WithoutErrorEvents)
       IN  /\ NoException <=> IsOk(r)
           /\ NoException
                 => /\ result.text = r.val.text
                    /\ result.citations = r.val.citations
                    /\ result.traces = r.val.traces
           /\ npc = "fallback" => result = Fallback(r.raised)

C11_Witness ==
    /\ npc = "returned"
    /\ consumed = <<[throttlingException |-> PyDict([message |-> "rate exceeded"])],
                    DictChunk([bytes |-> PyBytes(BytesEAcute),
                               attribution |-> Attribution(<<CitFull>>)]),
                    [trace |-> PyDict([agentId |-> "A1", sessionId |-> "S1"])]>>
    /\ result.error = [type |-> "throttlingException", message |-> "rate exceeded"]
    /\ result.text = <<233>>
    /\ Len(result.citations) = 1
    /\ result.traces = <<[agentId |-> "A1", sessionId |-> "S1"]>>

\* the messages of the exceptions the loop can raise
ExceptionMessages ==
    {TypeErrorNotIterable, TypeErrorStrIndex, AttributeErrorGet, AttributeErrorDecode,
     UnicodeDecodeError, StreamError}

\* C12: process_agent_response never raises; when an exception occurs, at
\* whatever position of the stream and whether the loop body or the stream
\* itself raises it, the record returned has exactly the keys text and
\* error, text is 'Error processing agent response' and error is the message
\* of the exception; nothing accumulated before is kept.  Otherwise the
\* function is still iterating or has returned the accumulated record.
C12_FallbackOnAnyException ==
    /\ npc \in {"iter", "returned", "fallback"}
    /\ npc = "fallback"
          => /\ DOMAIN result = {"text", "error"}
             /\ result.text = ErrorProcessingText
             /\ result.error \in ExceptionMessages
             /\ \/ result.error = StreamError
                \/ /\ consumed # <<>>
                   /\ IsOk(ProcessEvents(InitialResult,
                                         SubSeq(consumed, 1, Len(consumed) - 1)))
                   /\ ProcessEvents(InitialResult, consumed) = Raise(result.error)

C12_Witness ==
    /\ npc = "fallback"
    /\ consumed = <<DictChunk([bytes |-> PyBytes(BytesEAcute),
                               attribution |-> Attribution(<<CitFull>>)]),
                    [trace |-> PyDict([agentId |-> "A1", sessionId |-> "S1"])],
                    DictChunk([bytes |-> PyBytes(BytesTruncated)])>>
    /\ result = [text |-> ErrorProcessingText, error |-> UnicodeDecodeError]

\* The citations list an event delivers: that of the attribution block of its
\* chunk, in either representation of the chunk.
ChunkCitations(event) ==
    IF "chunk" \notin DOMAIN event THEN <<>>
    ELSE LET c == event.chunk
         IN  IF /\ c.py = "dict"
                /\ "attribution" \in DOMAIN c.d
                /\ c.d.attribution.py = "dict"
                /\ "citations" \in DOMAIN c.d.attribution.d
             THEN c.d.attribution.d.citations
             ELSE IF /\ c.py = "object"
                     /\ "attribution" \in DOMAIN c.attrs
                     /\ c.attrs.attribution.py = "object"
                     /\ "citations" \in DOMAIN c.attrs.attribution.attrs
                     /\ c.attrs.attribution.attrs.citations.py = "list"
             THEN c.attrs.attribution.attrs.citations.elems
             ELSE <<>>

\* no attribute-style chunk of the stream so far delivers citations
OnlyMappingCitations ==
    \A i \in 1..Len(consumed) :
        ("chunk" \in DOMAIN consumed[i] /\ consumed[i].chunk.py = "object")
        => ChunkCitations(consumed[i]) = <<>>

RECURSIVE StreamCitations(_)
StreamCitations(events) ==
    IF events = <<>> THEN <<>>
    ELSE ChunkCitations(Head(events)) \o StreamCitations(Tail(events))

\* the output reference carries what the input entry holds
RefMatches(out, ref) ==
    /\ \A k \in {"location", "metadata"} :
          IF k \in DOMAIN ref THEN k \in DOMAIN out /\ out[k] = ref[k]
          ELSE k \notin DOMAIN out
    /\ ("content" \in DOMAIN ref /\ ref.content.py = "dict"
           /\ "text" \in DOMAIN ref.content.d)
          => ("content" \in DOMAIN out /\ out.content = ref.content.d.text)

\* the emitted citation has one reference per entry of retrievedReferences,
\* in the same order
ReferencesPreserved(out, citation) ==
    "retrievedReferences" \in DOMAIN citation
    => /\ "references" \in DOMAIN out
       /\ Len(out.references) = Len(citation.retrievedReferences)
       /\ \A j \in 1..Len(citation.retrievedReferences) :
             RefMatches(out.references[j], citation.retrievedReferences[j])

\* C13: while no exception occurs, one citation is emitted per citation
\* delivered, and for every citation delivered with a retrievedReferences
\* list the emitted citation has a references list of the same length whose
\* j-th entry is made from the j-th entry of retrievedReferences.
C13_ReferencesSameLengthAndOrder ==
    NoException
    => LET cs == StreamCitations(consumed)
       IN  /\ Len(result.citations) = Len(cs)
           /\ \A i \in 1..Len(cs) : ReferencesPreserved(result.citations[i], cs[i])

\* What does hold: the property of C13 for the streams whose citations all
\* come in mapping-style chunks.
MappingReferencesPreserved ==
    (NoException /\ OnlyMappingCitations)
    => LET cs == StreamCitations(consumed)
       IN  /\ Len(result.citations) = Len(cs)
           /\ \A i \in 1..Len(cs) : ReferencesPreserved(result.citations[i], cs[i])

\* Apart from the sub-fields of its citations the event is well-formed: a
\* mapping-style chunk whose bytes decode and whose attribution block, if
\* any, is a mapping, or an event with well-formed trace and error payloads.
CleanApartFromCitations(event) ==
    /\ WellFormedEvent(event)
    /\ "chunk" \in DOMAIN event
          => /\ event.chunk.py = "dict"
             /\ "bytes" \in DOMAIN event.chunk.d
                   => (event.chunk.d.bytes.py = "bytes"
                         => IsOk(DecodeUtf8(event.chunk.d.bytes.b)))
             /\ "attribution" \in DOMAIN event.chunk.d
                   => event.chunk.d.attribution.py = "dict"

\* the citation has generatedResponsePart.textResponsePart, both mappings
HasTextPart(citation) ==
    /\ "generatedResponsePart" \in DOMAIN citation
    /\ citation.generatedResponsePart.py = "dict"
    /\ "textResponsePart" \in DOMAIN citation.generatedResponsePart.d
    /\ citation.generatedResponsePart.d.textResponsePart.py = "dict"

\* The emitted citation carries exactly the sub-fields that are present and
\* well-formed in the citation delivered; the others are absent.
SubfieldsSkipped(out, citation) ==
    /\ \A k \in {"text", "span"} :
          k \in DOMAIN out
          <=> (HasTextPart(citation)
                 /\ k \in DOMAIN citation.generatedResponsePart.d.textResponsePart.d)
    /\ ReferencesPreserved(out, citation)
    /\ "retrievedReferences" \in DOMAIN citation
          => \A j \in 1..Len(citation.retrievedReferences) :
                "content" \in DOMAIN out.references[j]
                <=> LET ref == citation.retrievedReferences[j]
                    IN  /\ "content" \in DOMAIN ref
                        /\ ref.content.py = "dict"
                        /\ "text" \in DOMAIN ref.content.d

\* the number of trace events of the stream so far
RECURSIVE CountTraces(_)
CountTraces(events) ==
    IF events = <<>> THEN 0
    ELSE (IF "trace" \in DOMAIN Head(events) THEN 1 ELSE 0) + CountTraces(Tail(events))

\* C14: a stream that is well-formed apart from the sub-fields of its
\* citations (a reference lacking content or with a content that is not a
\* mapping, a missing or non-mapping generatedResponsePart or
\* textResponsePart) is normalized without exception and without fallback:
\* the affected field is absent from the entry emitted, and all the text,
\* every citation and every trace of the stream is retained.
C14_MalformedSubfieldsSkipped ==
    ((\A i \in 1..Len(consumed) : CleanApartFromCitations(consumed[i])) /\ ~StreamFailed)
    => /\ NoException
       /\ result.text = ConcatPayloads(consumed)
       /\ Len(result.traces) = CountTraces(consumed)
       /\ LET cs == StreamCitations(consumed)
          IN  /\ Len(result.citations) = Len(cs)
              /\ \A i \in 1..Len(cs) : SubfieldsSkipped(result.citations[i], cs[i])

\* every generatedResponsePart delivered is a mapping or a string, and every
\* textResponsePart is a mapping
TextPartsTolerated ==
    \A i \in 1..Len(consumed) :
        \A j \in 1..Len(ChunkCitations(consumed[i])) :
            LET citation == ChunkCitations(consumed[i])[j]
            IN  "generatedResponsePart" \in DOMAIN citation
                => \/ citation.generatedResponsePart.py = "str"
                   \/ /\ citation.generatedResponsePart.py = "dict"
                      /\ "textResponsePart" \in DOMAIN citation.generatedResponsePart.d
                            => citation.generatedResponsePart.d.textResponsePart.py = "dict"

\* What does hold: the property of C14 when no generatedResponsePart is None
\* and no textResponsePart is other than a mapping.
ToleratedSubfieldsSkipped ==
    TextPartsTolerated => C14_MalformedSubfieldsSkipped

(***************************************************************************)
(* SyncKnowledgeBase.py: handler                                           *)
(*                                                                         *)
(* Time is counted in whole seconds.  It passes while a service call is    *)
(* in progress (0..MaxPollTime seconds) and while the handler sleeps.      *)
(***************************************************************************)
\* line 59
max_wait_time == 300

\* line 88: time.sleep(10)
SleepInterval == 10

\* the longest a service call takes
MaxPollTime == 2

CallTimes == 0..MaxPollTime

\* the statuses get_ingestion_job reports for an ingestion job
JobStatuses == {"STARTING", "IN_PROGRESS", "STOPPING", "COMPLETE", "FAILED", "STOPPED"}

\* os.environ: both identifiers set, one missing, one empty
Environs ==
    { [KNOWLEDGE_BASE_ID |-> "KB1", DATA_SOURCE_ID |-> "DS1"],
      [KNOWLEDGE_BASE_ID |-> "KB1"],
      [DATA_SOURCE_ID |-> "DS1"],
      [KNOWLEDGE_BASE_ID |-> "", DATA_SOURCE_ID |-> "DS1"] }

\* what start_ingestion_job does: a response with the job, a response
\* without the job id, a ClientError, another exception
StartOutcomes ==
    { [kind |-> "ok", response |-> [ingestionJob |-> [ingestionJobId |-> "J1"]]],
      [kind |-> "ok", response |-> [ingestionJob |-> EmptyDict]],
      [kind |-> "ClientError",
       message |-> "An error occurred (AccessDeniedException) when calling the StartIngestionJob operation: denied"],
      [kind |-> "Exception", message |-> "Could not connect to the endpoint URL"] }

\* what get_ingestion_job does: a status, a ClientError, another exception
GetOutcomes ==
    { [kind |-> "ok", status |-> st] : st \in JobStatuses }
    \cup { [kind |-> "ClientError",
            message |-> "An error occurred (ThrottlingException) when calling the GetIngestionJob operation: Rate exceeded"],
           [kind |-> "Exception", message |-> "Could not connect to the endpoint URL"] }

\* json.dumps({key: value}) for a str value without characters to escape
JsonDumps(key, value) == "{\"" \o key \o "\": \"" \o value \o "\"}"

\* lines 37-43
MissingEnvResponse ==
    [statusCode |-> 400,
     body |-> JsonDumps("error",
                 "Missing required environment variables: KNOWLEDGE_BASE_ID or DATA_SOURCE_ID")]

\* lines 75-78
CompleteResponse ==
    [statusCode |-> 200,
     body |-> JsonDumps("message", "Knowledge base ingestion completed successfully")]

\* lines 80-86
FailedResponse(st) ==
    [statusCode |-> 500,
     body |-> JsonDumps("error", "Knowledge base ingestion failed with status: " \o st)]

\* mutant: the timeout is reported as an error
TimeoutResponseAsError ==
    [statusCode |-> 500,
     body |-> JsonDumps("error",
                 "Knowledge base ingestion started but did not complete within timeout")]

\* lines 93-96
TimeoutResponse ==
    [statusCode |-> 200,
     body |-> JsonDumps("message",
                 "Knowledge base ingestion started but did not complete within timeout")]

\* mutant: an exception is reported as a timeout
ExceptionResponseAsTimeout(e) == TimeoutResponse

\* lines 98-111: the two except clauses
ExceptionResponse(e) ==
    [statusCode |-> 500,
     body |-> JsonDumps("error",
                 (IF e.kind = "ClientError" THEN "AWS Error: " ELSE "Internal server error: ")
                 \o e.message)]

\* line 54: response['ingestionJob']['ingestionJobId'] raises KeyError when
\* the key is missing
KeyErrorJobId == [kind |-> "Exception", message |-> "'ingestionJobId'"]

\* mutant: the wait limit is applied twice over
LoopConditionTwiceLimit(elapsed) == elapsed < 2 * max_wait_time

\* mutant: the loop is still entered when the limit is reached exactly
LoopConditionInclusive(elapsed) == elapsed <= max_wait_time

\* mutant: the loop gives up one sleep interval before the limit
LoopConditionEarly(elapsed) == elapsed < max_wait_time - SleepInterval

\* line 62: time.time() - start_time < max_wait_time
LoopCondition(elapsed) == elapsed < max_wait_time

\* mutant: COMPLETE is not recognized
IsCompleteNever(st) == FALSE

\* line 72
IsComplete(st) == st = "COMPLETE"

\* mutant: STOPPED is not recognized
IsFailedOnlyFailed(st) == st = "FAILED"

\* line 79
IsFailed(st) == st \in {"FAILED", "STOPPED"}

\* the statuses after which an ingestion job does not change any more
TerminalStatuses == {"COMPLETE", "FAILED", "STOPPED"}

PollerInit ==
    /\ environ \in Environs
    /\ now = 0
    /\ start_time = -1
    /\ status = None
    /\ polls = 0
    /\ sleeps = 0
    /\ first_terminal = [at |-> 0, status |-> None]
    /\ pexc = NoExc
    /\ presult = NoRet
    /\ ppc = "start"
    /\ retrieve_params = EmptyDict
    /\ params0 = EmptyDict
    /\ calls = <<>>
    /\ outcomes = <<>>
    /\ exc = NoExc
    /\ ret = NoRet
    /\ rpc = "idle"
    /\ response = EmptyDict
    /\ consumed = <<>>
    /\ result = EmptyDict
    /\ npc = "idle"
    /\ body = [kind |-> "none"]
    /\ hret = [kind |-> "none"]
    /\ hpc = "idle"
    /\ request = [kind |-> "none"]
    /\ update_params = EmptyDict
    /\ service_calls = <<>>
    /\ gret = [kind |-> "none"]
    /\ gpc = "idle"

\* lines 31-60, and 98-111 when the call or the look-up of the job id raises
StartIngestionJob ==
    /\ ppc = "start"
    /\ IF ~Truthy(Get(environ, "KNOWLEDGE_BASE_ID", None))
          \/ ~Truthy(Get(environ, "DATA_SOURCE_ID", None))
       THEN /\ presult' = MissingEnvResponse
            /\ ppc' = "done"
            /\ UNCHANGED <<now, start_time, pexc>>
       ELSE \E o \in StartOutcomes, d \in CallTimes :
               /\ now' = now + d
               /\ IF o.kind = "ok"
                  THEN IF "ingestionJobId" \in DOMAIN o.response.ingestionJob
                       THEN /\ start_time' = now'
                            /\ ppc' = "loop"
                            /\ UNCHANGED <<pexc, presult>>
                       ELSE /\ pexc' = KeyErrorJobId
                            /\ presult' = ExceptionResponse(KeyErrorJobId)
                            /\ ppc' = "done"
                            /\ UNCHANGED start_time
                  ELSE /\ pexc' = o
                       /\ presult' = ExceptionResponse(o)
                       /\ ppc' = "done"
                       /\ UNCHANGED start_time
    /\ UNCHANGED <<environ, status, polls, sleeps, first_terminal, rvars, nvars, qvars, gvars>>

\* line 62, and 90-96 when the condition is false
LoopTest ==
    /\ ppc = "loop"
    /\ IF LoopCondition(now - start_time)
       THEN /\ ppc' = "poll"
            /\ UNCHANGED presult
       ELSE /\ presult' = TimeoutResponse
            /\ ppc' = "done"
    /\ UNCHANGED <<environ, now, start_time, status, polls, sleeps, first_terminal,
                   pexc, rvars, nvars, qvars, gvars>>

\* lines 63-86, and 98-111 when the call raises
GetIngestionJob ==
    /\ ppc = "poll"
    /\ polls' = polls + 1
    /\ \E o \in GetOutcomes, d \in CallTimes :
          /\ now' = now + d
          /\ IF o.kind = "ok"
             THEN /\ status' = o.status
                  /\ first_terminal' =
                        IF first_terminal.at = 0 /\ o.status \in TerminalStatuses
                        THEN [at |-> polls + 1, status |-> o.status]
                        ELSE first_terminal
                  /\ UNCHANGED pexc
                  /\ IF IsComplete(o.status)
                     THEN presult' = CompleteResponse /\ ppc' = "done"
                     ELSE IF IsFailed(o.status)
                     THEN presult' = FailedResponse(o.status) /\ ppc' = "done"
                     ELSE presult' = presult /\ ppc' = "sleep"
             ELSE /\ pexc' = o
                  /\ presult' = ExceptionResponse(o)
                  /\ ppc' = "done"
                  /\ UNCHANGED <<status, first_terminal>>
    /\ UNCHANGED <<environ, start_time, sleeps, rvars, nvars, qvars, gvars>>

\* mutant: the handler sleeps twice between two polls
SleepTwice ==
    /\ ppc = "sleep"
    /\ now' = now + 2 * SleepInterval
    /\ sleeps' = sleeps + 2
    /\ ppc' = "loop"
    /\ UNCHANGED <<environ, start_time, status, polls, first_terminal, pexc, presult,
                   rvars, nvars, qvars, gvars>>

\* line 88
Sleep ==
    /\ ppc = "sleep"
    /\ now' = now + SleepInterval
    /\ sleeps' = sleeps + 1
    /\ ppc' = "loop"
    /\ UNCHANGED <<environ, start_time, status, polls, first_terminal, pexc, presult,
                   rvars, nvars, qvars, gvars>>

PollerNext == StartIngestionJob \/ LoopTest \/ GetIngestionJob \/ Sleep

SpecPoller == PollerInit /\ [][PollerNext]_vars

\* The handler is one sequential thread: each call and each sleep returns
\* and the next statement is executed.
SpecPollerFair == SpecPoller /\ WF_vars(PollerNext)

(***************************************************************************)
(* Claims about the ingestion poller                                       *)
(***************************************************************************)
\* the wait loop has been entered
LoopStarted == start_time >= 0

\* seconds since the wait loop began
Elapsed == now - start_time

\* the three outcomes of the wait loop, as the caller receives them
SuccessOutcome ==
    [statusCode |-> 200,
     body |-> "{\"message\": \"Knowledge base ingestion completed successfully\"}"]

FailureOutcome(st) ==
    [statusCode |-> 500,
     body |-> "{\"error\": \"Knowledge base ingestion failed with status: " \o st \o "\"}"]

TimedOutOutcome ==
    [statusCode |-> 200,
     body |-> "{\"message\": \"Knowledge base ingestion started but did not complete within timeout\"}"]

\* C15: when the first terminal status the job reports is COMPLETE, at the
\* k-th poll, the handler has returned the success outcome with exactly k
\* get_ingestion_job calls and k - 1 sleeps made: no poll and no sleep
\* follows the poll that saw COMPLETE.
C15_CompleteAtKthPoll ==
    (first_terminal.at > 0 /\ first_terminal.status = "COMPLETE")
    => /\ ppc = "done"
       /\ presult = SuccessOutcome
       /\ pexc = NoExc
       /\ status = "COMPLETE"
       /\ polls = first_terminal.at
       /\ sleeps = first_terminal.at - 1

\* [STARTING, STARTING, COMPLETE] polled every 10 seconds
C15_Witness ==
    /\ ppc = "done"
    /\ first_terminal = [at |-> 3, status |-> "COMPLETE"]
    /\ polls = 3
    /\ sleeps = 2
    /\ Elapsed = 20
    /\ presult = SuccessOutcome

\* C16: when the handler has returned from the wait loop without a service
\* error and no poll has reported COMPLETE, FAILED or STOPPED, the wait limit
\* has elapsed and the value returned is the timed-out outcome: statusCode
\* 200, a body with the single key message, different from the success
\* outcome.  The timed-out outcome is returned in no other case.
C16_TimeoutIsNotAnError ==
    /\ (ppc = "done" /\ LoopStarted /\ pexc = NoExc /\ first_terminal.at = 0)
       => /\ presult = TimedOutOutcome
          /\ presult.statusCode = 200
          /\ presult # SuccessOutcome
          /\ presult.body # SuccessOutcome.body
          /\ Elapsed >= 300
    /\ (ppc = "done" /\ presult = TimedOutOutcome)
       => (first_terminal.at = 0 /\ pexc = NoExc /\ Elapsed >= 300)

C16_Witness ==
    /\ ppc = "done"
    /\ first_terminal.at = 0
    /\ status = "STOPPING"
    /\ polls = 28
    /\ Elapsed > 300
    /\ presult = TimedOutOutcome

\* C17: when the first terminal status the job reports is FAILED or STOPPED,
\* at the k-th poll, the handler has returned the failure outcome naming that
\* status (statusCode 500) with exactly k polls and k - 1 sleeps made, so no
\* later poll can change the outcome.
C17_FailedOrStoppedEndsLoop ==
    (first_terminal.at > 0 /\ first_terminal.status \in {"FAILED", "STOPPED"})
    => /\ ppc = "done"
       /\ presult = FailureOutcome(first_terminal.status)
       /\ presult.statusCode = 500
       /\ pexc = NoExc
       /\ status = first_terminal.status
       /\ polls = first_terminal.at
       /\ sleeps = first_terminal.at - 1

C17_Witness ==
    /\ ppc = "done"
    /\ first_terminal = [at |-> 2, status |-> "STOPPED"]
    /\ polls = 2
    /\ sleeps = 1
    /\ presult = [statusCode |-> 500,
                  body |-> "{\"error\": \"Knowledge base ingestion failed with status: STOPPED\"}"]

\* C18 as stated: when the handler returns, at most 300 seconds have passed
\* since the wait loop began.
C18_ElapsedWithinLimit ==
    (ppc = "done" /\ LoopStarted) => Elapsed <= 300

\* C18 amended: the limit is tested before each poll only.  No poll starts
\* once 300 seconds have passed since the wait loop began, and the handler
\* returns less than 300 seconds plus the time of one poll plus one sleep of
\* 10 after the loop began; when polls take no time (all the time elapsed
\* was slept) that is at most 300 seconds.
C18_ElapsedWithinLimitPlusOneRound ==
    LoopStarted
    => /\ ppc = "poll" => Elapsed < 300
       /\ Elapsed < 300 + MaxPollTime + 10
       /\ Elapsed = 10 * sleeps => Elapsed <= 300

C18_Witness ==
    /\ ppc = "done"
    /\ presult = TimedOutOutcome
    /\ Elapsed = 300 + MaxPollTime + 10 - 1

\* the outcomes of the wait loop that the value returned is
OutcomesReturned ==
    { o \in {"success", "failure", "timed-out"} :
        \/ o = "success" /\ presult = SuccessOutcome
        \/ o = "failure" /\ \E st \in {"FAILED", "STOPPED"} : presult = FailureOutcome(st)
        \/ o = "timed-out" /\ presult = TimedOutOutcome }

\* C19: the handler eventually returns, whatever statuses the polls report;
\* it never makes more than 30 polls (each round of the loop sleeps 10 of
\* the 300 seconds; exactly 30 are made when polls take no time and no
\* status is terminal); and when it returns from the wait loop without a
\* service error, the value returned is exactly one of the success, failure
\* and timed-out outcomes.
C19_TerminatesWithOneOutcome ==
    /\ <>(ppc = "done")
    /\ [](polls <= 30)
    /\ []((ppc = "done" /\ LoopStarted /\ pexc = NoExc)
             => Cardinality(OutcomesReturned) = 1)

C19_Witness ==
    /\ ppc = "done"
    /\ first_terminal.at = 0
    /\ polls = 30
    /\ sleeps = 30
    /\ Elapsed = 300
    /\ OutcomesReturned = {"timed-out"}

(***************************************************************************)
(* Further claims about perform_retrieve_and_generate                      *)
(***************************************************************************)
\* C20: when perform_retrieve_and_generate has returned, the flag is True
\* exactly when two calls were issued, the second succeeded and its response
\* is the one returned; it is False exactly when one call was issued, it
\* succeeded and its response is the one returned.
C20_FlagTellsWhichCallAnswered ==
    (rpc = "done" /\ ret.kind = "return")
    => /\ ret.session_changed \in BOOLEAN
       /\ ret.session_changed
             <=> /\ Len(calls) = 2
                 /\ outcomes[1].kind # "ok"
                 /\ outcomes[2].kind = "ok"
                 /\ ret.response = outcomes[2].response
       /\ ~ret.session_changed
             <=> /\ Len(calls) = 1
                 /\ outcomes[1].kind = "ok"
                 /\ ret.response = outcomes[1].response

C20_Witness ==
    /\ rpc = "done"
    /\ ret.kind = "return"
    /\ ret.session_changed
    /\ Len(calls) = 2
    /\ outcomes[2].kind = "ok"
    /\ ret.response = outcomes[2].response
    /\ "sessionId" \in DOMAIN ret.response

\* the knowledgeBaseConfiguration of the keyword arguments of a call
KnowledgeBaseConfiguration(call) ==
    call.retrieveAndGenerateConfiguration.knowledgeBaseConfiguration

\* C21: when a second call is issued, its keyword arguments are those of the
\* first call without the key sessionId and nothing else changed: the same
\* query text, knowledge-base id, number of results, generation
\* configuration (guardrail id and version when supplied, inference
\* configuration), and they are the arguments handle_query built.
C21_RetryChangesOnlySessionId ==
    Len(calls) = 2
    => /\ calls[1] = params0
       /\ "sessionId" \in DOMAIN calls[1]
       /\ DOMAIN calls[2] = DOMAIN calls[1] \ {"sessionId"}
       /\ \A k \in DOMAIN calls[2] : calls[2][k] = calls[1][k]
       /\ calls[2].input.text = calls[1].input.text
       /\ KnowledgeBaseConfiguration(calls[2]).knowledgeBaseId
             = KnowledgeBaseConfiguration(calls[1]).knowledgeBaseId
       /\ KnowledgeBaseConfiguration(calls[2]).retrievalConfiguration
             = KnowledgeBaseConfiguration(calls[1]).retrievalConfiguration
       /\ KnowledgeBaseConfiguration(calls[2]).generationConfiguration
             = KnowledgeBaseConfiguration(calls[1]).generationConfiguration

C21_Witness ==
    /\ Len(calls) = 2
    /\ calls[1].sessionId = "old-7"
    /\ "sessionId" \notin DOMAIN calls[2]
    /\ calls[2].input.text = "q2"
    /\ "guardrailConfiguration"
          \in DOMAIN KnowledgeBaseConfiguration(calls[2]).generationConfiguration
    /\ KnowledgeBaseConfiguration(calls[2]).generationConfiguration.guardrailConfiguration
          = [guardrailId |-> "gr-1", guardrailVersion |-> "DRAFT"]
    /\ "inferenceConfig" \in DOMAIN KnowledgeBaseConfiguration(calls[2]).generationConfiguration

(***************************************************************************)
(* Further claims about process_agent_response                             *)
(***************************************************************************)
HasTraceBlock(event) == "trace" \in DOMAIN event

\* the events of the stream so far that carry a trace block, in stream order
TraceBlocks == SelectSeq(consumed, HasTraceBlock)

\* the nested payload of a trace block has the key
NestedHas(block, key) ==
    /\ "trace" \in DOMAIN block.d
    /\ key \in DOMAIN block.d.trace.d

\* rec is the record the specification describes for the trace block
TraceRecordOf(rec, block) ==
    /\ DOMAIN rec \subseteq
          {"agentId", "agentAliasId", "agentVersion", "sessionId", "guardrail", "orchestration"}
    /\ \A k \in {"agentId", "agentAliasId", "agentVersion", "sessionId"} :
          IF k \in DOMAIN block.d THEN k \in DOMAIN rec /\ rec[k] = block.d[k]
          ELSE k \notin DOMAIN rec
    /\ "guardrail" \in DOMAIN rec <=> NestedHas(block, "guardrailTrace")
    /\ "orchestration" \in DOMAIN rec <=> NestedHas(block, "orchestrationTrace")
    /\ NestedHas(block, "guardrailTrace")
          => LET g == block.d.trace.d.guardrailTrace.d
             IN  /\ DOMAIN rec.guardrail
                       = {"action", "traceId"}
                         \cup ({"inputAssessments", "outputAssessments"} \cap DOMAIN g)
                 /\ \A k \in DOMAIN rec.guardrail \cap DOMAIN g : rec.guardrail[k] = g[k]
    /\ NestedHas(block, "orchestrationTrace")
          => LET o == block.d.trace.d.orchestrationTrace.d
             IN  /\ DOMAIN rec.orchestration = {"modelInvocationInput", "modelInvocationOutput"}
                 /\ \A k \in DOMAIN rec.orchestration \cap DOMAIN o :
                       rec.orchestration[k] = o[k]

\* C22: while no exception occurs, traces has one record per event carrying
\* a trace block, in stream order; the i-th record holds exactly those of
\* agentId, agentAliasId, agentVersion and sessionId that the i-th block
\* holds, a guardrail sub-record iff the nested payload has guardrailTrace,
\* and an orchestration sub-record iff it has orchestrationTrace.
C22_OneRecordPerTraceEvent ==
    NoException
    => /\ Len(result.traces) = Len(TraceBlocks)
       /\ \A i \in 1..Len(TraceBlocks) :
             TraceRecordOf(result.traces[i], TraceBlocks[i].trace)

C22_Witness ==
    /\ npc = "returned"
    /\ consumed =
          <<[trace |-> PyDict([agentId |-> "A1",
                               trace |-> PyDict([orchestrationTrace |->
                                            PyDict([modelInvocationInput |-> "in-1"])])])],
            DictChunk([bytes |-> PyBytes(BytesHel)]),
            [trace |-> PyDict([agentId |-> "A1", agentAliasId |-> "AL",
                               agentVersion |-> "1", sessionId |-> "S1",
                               trace |-> PyDict([guardrailTrace |-> PyDict(GuardrailTrace)])])]>>
    /\ Len(result.traces) = 2
    /\ DOMAIN result.traces[1] = {"agentId", "orchestration"}
    /\ DOMAIN result.traces[2]
          = {"agentId", "agentAliasId", "agentVersion", "sessionId", "guardrail"}

\* out is the record composed from the citation's own fields: text and span
\* of generatedResponsePart.textResponsePart where present, and the
\* references made from retrievedReferences
CitationRecordOf(out, citation) ==
    /\ DOMAIN out \subseteq {"text", "span", "references"}
    /\ \A k \in {"text", "span"} :
          IF HasTextPart(citation)
             /\ k \in DOMAIN citation.generatedResponsePart.d.textResponsePart.d
          THEN /\ k \in DOMAIN out
               /\ out[k] = citation.generatedResponsePart.d.textResponsePart.d[k]
          ELSE k \notin DOMAIN out
    /\ "references" \in DOMAIN out <=> "retrievedReferences" \in DOMAIN citation
    /\ ReferencesPreserved(out, citation)

\* C23: while no exception occurs, citations has one record per citation
\* delivered in the attribution block of a chunk, attribute-style or
\* mapping-style, in the order of the stream, and the i-th record is
\* composed from the text, span and retrievedReferences of the i-th citation.
C23_CitationsComposedInOrder ==
    NoException
    => LET cs == StreamCitations(consumed)
       IN  /\ Len(result.citations) = Len(cs)
           /\ \A i \in 1..Len(cs) : CitationRecordOf(result.citations[i], cs[i])

\* What does hold: the property of C23 for the streams whose citations all
\* come in mapping-style chunks.
MappingCitationsComposedInOrder ==
    OnlyMappingCitations => C23_CitationsComposedInOrder

(***************************************************************************)
(* Further claims about the ingestion poller                               *)
(***************************************************************************)
\* C24: polls and sleeps alternate, starting with a poll.  Before a poll as
\* many sleeps as polls have been made; after a poll that reported no
\* terminal status exactly one sleep follows before the next poll, it lasts
\* 10 seconds and comes after the status was checked; after a poll that
\* reported COMPLETE, FAILED or STOPPED there is no sleep.
C24_PollsAndSleepsAlternate ==
    /\ [](/\ ppc \in {"loop", "poll"} => sleeps = polls
          /\ ppc = "sleep"
                => /\ polls = sleeps + 1
                   /\ status \in {"STARTING", "IN_PROGRESS", "STOPPING"}
          /\ first_terminal.at > 0 => (ppc = "done" /\ sleeps = first_terminal.at - 1))
    /\ [][/\ polls' # polls => (polls' = polls + 1 /\ sleeps' = sleeps /\ sleeps = polls)
          /\ sleeps' # sleeps
                => /\ sleeps' = sleeps + 1
                   /\ now' = now + 10
                   /\ polls' = polls
                   /\ polls = sleeps + 1
                   /\ first_terminal.at = 0]_vars

C24_Witness ==
    /\ ppc = "poll"
    /\ polls = 3
    /\ sleeps = 3
    /\ Elapsed = 30
    /\ status = "IN_PROGRESS"

\* C25 as stated: at a loop check with no more than 300 seconds elapsed
\* another poll is issued, and the timed-out outcome is returned only when
\* more than 300 seconds have elapsed.
C25_PollsUntilLimitExceeded ==
    /\ [][ppc = "loop" => IF Elapsed <= 300 THEN ppc' = "poll"
                          ELSE ppc' = "done" /\ presult' = TimedOutOutcome]_vars
    /\ []((ppc = "done" /\ presult = TimedOutOutcome) => Elapsed > 300)

\* C25 amended: at a loop check with less than 300 seconds elapsed another
\* poll is issued; with 300 seconds or more elapsed, exactly 300 included,
\* the timed-out outcome is returned and no poll is issued.
C25_PollsWhileBelowLimit ==
    /\ [][ppc = "loop" => IF Elapsed < 300
                          THEN ppc' = "poll" /\ presult' = presult /\ polls' = polls
                          ELSE ppc' = "done" /\ presult' = TimedOutOutcome
                               /\ polls' = polls]_vars
    /\ []((ppc = "done" /\ presult = TimedOutOutcome) => Elapsed >= 300)
    /\ [](ppc = "poll" => Elapsed < 300)

\* the limit is reached exactly at a loop check, after polls that took time
C25_Witness ==
    /\ ppc = "done"
    /\ presult = TimedOutOutcome
    /\ Elapsed = 300
    /\ polls = 29
    /\ sleeps = 29

\* the failure signal for an exception with the given message
ErrorSignal(prefix, message) ==
    [statusCode |-> 500, body |-> "{\"error\": \"" \o prefix \o message \o "\"}"]

\* C26: once start_ingestion_job or a get_ingestion_job poll has raised, the
\* handler has returned: the value returned has statusCode 500 and an error
\* body naming the exception, it is neither the success nor the timed-out
\* outcome, and no poll and no sleep is made afterwards (the failing call is
\* the last one; a failing start is followed by no poll at all).
C26_ServiceErrorEndsHandler ==
    /\ [](pexc # NoExc
            => /\ ppc = "done"
               /\ presult.statusCode = 500
               /\ presult = ErrorSignal(IF pexc.kind = "ClientError" THEN "AWS Error: "
                                        ELSE "Internal server error: ", pexc.message)
               /\ presult # SuccessOutcome
               /\ presult # TimedOutOutcome
               /\ sleeps = (IF polls = 0 THEN 0 ELSE polls - 1)
               /\ ~LoopStarted => polls = 0)
    /\ [][pexc # NoExc => UNCHANGED <<polls, sleeps, presult, pexc>>]_vars

C26_Witness ==
    /\ ppc = "done"
    /\ pexc.kind = "ClientError"
    /\ polls = 2
    /\ sleeps = 1
    /\ presult.statusCode = 500

(***************************************************************************)
(* QueryKnowledgeBase.py: handle_query                                     *)
(*                                                                         *)
(* The body of the event is either text that json.loads rejects or the     *)
(* dict it parses to.  The text json.dumps makes of a response body is     *)
(* written JsonText(d), d being the dict that was dumped.                  *)
(***************************************************************************)
\* event['body'] as json.loads sees it
RequestBodies ==
    { [kind |-> "malformed"] }
    \cup { [kind |-> "json", d |-> d] :
             d \in { EmptyDict,
                     [query |-> ""],
                     [query |-> "q1"],
                     [query |-> "q1", sessionId |-> ""],
                     [query |-> "q1", sessionId |-> "abc123"],
                     [query |-> "q2", guardrailId |-> "gr-1"],
                     [query |-> "q2", sessionId |-> "old-7", guardrailId |-> "gr-1"] } }

\* os.environ with and without the knowledge base id
QueryEnvirons == { [KNOWLEDGE_BASE_ID |-> "kb-1"], EmptyDict }

JsonText(d) == [json |-> d]

\* common_utils.create_response
CreateResponse(status_code, response_body) ==
    [statusCode |-> status_code, headers |-> "cors", body |-> JsonText(response_body)]

\* str(e): botocore's text for a ClientError, the exception's own for others
StrOfException(e) ==
    IF e.kind = "ClientError"
    THEN <<"An error occurred (",
           Get(Get(e.response, "Error", EmptyDict), "Code", "Unknown"),
           ") when calling the RetrieveAndGenerate operation: ",
           Get(Get(e.response, "Error", EmptyDict), "Message", "Unknown")>>
    ELSE <<e.name>>

JSONDecodeError == [kind |-> "Exception", name |-> "JSONDecodeError"]

\* mutant: the failure of the executor is reported with status 200
QueryErrorResponseOk(e) ==
    CreateResponse(200, [error |-> <<"Error querying knowledge base: ">> \o StrOfException(e)])

\* line 188
QueryErrorResponse(e) ==
    CreateResponse(500, [error |-> <<"Error querying knowledge base: ">> \o StrOfException(e)])

\* mutant: the client's sessionId is echoed when it sent one
QuerySuccessResponseEchoesClient(query, resp) ==
    CreateResponse(200, [query |-> query, results |-> resp,
                         sessionId |-> Get(body.d, "sessionId", Get(resp, "sessionId", None))])

\* lines 193-197
QuerySuccessResponse(query, resp) ==
    CreateResponse(200, [query |-> query, results |-> resp,
                         sessionId |-> Get(resp, "sessionId", None)])

QueryInit ==
    /\ body \in RequestBodies
    /\ environ \in QueryEnvirons
    /\ hret = NoRet
    /\ hpc = "start"
    /\ retrieve_params = EmptyDict
    /\ params0 = EmptyDict
    /\ calls = <<>>
    /\ outcomes = <<>>
    /\ exc = NoExc
    /\ ret = NoRet
    /\ rpc = "idle"
    /\ response = EmptyDict
    /\ consumed = <<>>
    /\ result = EmptyDict
    /\ npc = "idle"
    /\ now = 0
    /\ start_time = -1
    /\ status = None
    /\ polls = 0
    /\ sleeps = 0
    /\ first_terminal = [at |-> 0, status |-> None]
    /\ pexc = NoExc
    /\ presult = NoRet
    /\ ppc = "idle"
    /\ request = [kind |-> "none"]
    /\ update_params = EmptyDict
    /\ service_calls = <<>>
    /\ gret = [kind |-> "none"]
    /\ gpc = "idle"

\* lines 91-170: parse the body, check query and knowledge base id, build
\* the parameter bag
BuildQuery ==
    /\ hpc = "start"
    /\ IF body.kind = "malformed"
       THEN /\ hret' = [kind |-> "raise", error |-> JSONDecodeError]
            /\ hpc' = "done"
            /\ UNCHANGED <<retrieve_params, params0, rpc>>
       ELSE IF ~Truthy(Get(body.d, "query", None))
       THEN /\ hret' = [kind |-> "return",
                        response |-> CreateResponse(400, [error |-> "Query text is required"])]
            /\ hpc' = "done"
            /\ UNCHANGED <<retrieve_params, params0, rpc>>
       ELSE IF ~Truthy(Get(environ, "KNOWLEDGE_BASE_ID", None))
       THEN /\ hret' = [kind |-> "return",
                        response |-> CreateResponse(500,
                                        [error |-> "Knowledge base ID not configured"])]
            /\ hpc' = "done"
            /\ UNCHANGED <<retrieve_params, params0, rpc>>
       ELSE /\ retrieve_params' = BuildRetrieveParams(body.d.query,
                                                      Get(body.d, "sessionId", None),
                                                      Get(body.d, "guardrailId", None))
            /\ params0' = retrieve_params'
            /\ rpc' = "first"
            /\ hpc' = "call"
            /\ UNCHANGED hret
    /\ UNCHANGED <<body, calls, outcomes, exc, ret, nvars, pvars, gvars>>

\* lines 176-197: perform_retrieve_and_generate has returned or raised
FinishQuery ==
    /\ hpc = "call"
    /\ rpc = "done"
    /\ hret' = [kind |-> "return",
                response |-> IF ret.kind = "raise"
                             THEN QueryErrorResponse(ret.error)
                             ELSE QuerySuccessResponse(body.d.query, ret.response)]
    /\ hpc' = "done"
    /\ UNCHANGED <<body, rvars, nvars, pvars, gvars>>

QueryNext == BuildQuery \/ FirstCall \/ HandleClientError \/ RetryCall \/ FinishQuery

SpecQuery == QueryInit /\ [][QueryNext]_vars

(***************************************************************************)
(* Claims about handle_query                                               *)
(***************************************************************************)
QueryReturned == hpc = "done" /\ hret.kind = "return"

SomeCallSucceeded == \E i \in 1..Len(outcomes) : outcomes[i].kind = "ok"

\* C27: a failure of perform_retrieve_and_generate never leaves
\* handle_query as an exception: whenever the executor raised, on the first
\* call or on the retry, handle_query returns a response with status 500
\* whose body has an error entry, and a response with status 200 is
\* returned only when a call to the service succeeded.
C27_ExecutorFailureIs500 ==
    /\ (hpc = "done" /\ rpc = "done")
          => /\ hret.kind = "return"
             /\ ret.kind = "raise"
                  => /\ hret.response.statusCode = 500
                     /\ DOMAIN hret.response.body.json = {"error"}
                     /\ hret.response.body.json.error
                          = <<"Error querying knowledge base: ">> \o StrOfException(ret.error)
    /\ (QueryReturned /\ hret.response.statusCode = 200) => SomeCallSucceeded

\* the retried call failed and handle_query answered 500
C27_Witness ==
    /\ hpc = "done"
    /\ Len(outcomes) = 2
    /\ ret.kind = "raise"
    /\ ret.error.kind = "Exception"
    /\ hret.kind = "return"
    /\ hret.response.statusCode = 500

\* C28: the sessionId of a 200 response is the sessionId of the service
\* response that is returned as results, which is the answer of the last
\* call; after a retry without the stale session it equals the stale
\* sessionId the client sent only if the service returned that same value.
C28_SessionIdIsTheServices ==
    (QueryReturned /\ hret.response.statusCode = 200)
      => /\ hret.response.body.json.results = outcomes[Len(outcomes)].response
         /\ hret.response.body.json.sessionId
              = Get(outcomes[Len(outcomes)].response, "sessionId", None)
         /\ (ret.session_changed
               /\ hret.response.body.json.sessionId = Get(body.d, "sessionId", None))
              => Get(outcomes[2].response, "sessionId", None) = Get(body.d, "sessionId", None)

\* the client sent a stale session, the retry succeeded with a fresh one
C28_Witness ==
    /\ QueryReturned
    /\ hret.response.statusCode = 200
    /\ ret.session_changed
    /\ Get(body.d, "sessionId", None) = "old-7"
    /\ hret.response.body.json.sessionId = "fresh-1"

(***************************************************************************)
(* ManageGuardrails.py: handler, update_agent_guardrail and                *)
(* prepare_updated_agent, for a PUT /guardrails event                      *)
(*                                                                         *)
(* Each Bedrock call is one step: the call, its outcome, and what the code *)
(* does with that outcome up to the next call or the handler's return.     *)
(* The texts of error bodies are sequences of their parts.                 *)
(***************************************************************************)
\* event['body'] as json.loads sees it
GuardrailRequests ==
    { [kind |-> "malformed"] }
    \cup { [kind |-> "json", d |-> d] :
             d \in { EmptyDict,
                     [guardrailId |-> "gr-1"],
                     [agentId |-> "agent-1"],
                     [agentId |-> "agent-1", guardrailId |-> ""],
                     [agentId |-> "agent-1", guardrailId |-> "gr-1"],
                     [agentId |-> "agent-1", guardrailId |-> "gr-1",
                      guardrailVersion |-> "1"] } }

\* e.response of the ClientErrors the Bedrock calls raise
GuardrailErrorResponses ==
    { EmptyDict,
      [Error |-> [Message |-> "no code"]],
      [Error |-> [Code |-> "ResourceNotFoundException", Message |-> "not found"]],
      [Error |-> [Code |-> "ThrottlingException"]] }

\* what a Bedrock call can do: return one of `responses` or raise
CallOutcomes(operation, responses) ==
    { [kind |-> "ok", response |-> r] : r \in responses }
    \cup { [kind |-> "ClientError", response |-> r, operation |-> operation] :
             r \in GuardrailErrorResponses }
    \cup { [kind |-> "Exception", name |-> "ReadTimeoutError"] }

AgentDetails ==
    [agentName |-> "helper", agentResourceRoleArn |-> "arn:role",
     foundationModel |-> "model-1", instruction |-> "be helpful"]

GetAgentOutcomes ==
    CallOutcomes("GetAgent",
                 { [agent |-> AgentDetails],
                   [agent |-> AgentDetails
                                @@ [guardrailConfiguration |->
                                      [guardrailIdentifier |-> "gr-0",
                                       guardrailVersion |-> "DRAFT"]]],
                   EmptyDict })

GetGuardrailOutcomes == CallOutcomes("GetGuardrail", { [guardrailId |-> "gr-1"] })

UpdateAgentOutcomes == CallOutcomes("UpdateAgent", { [agent |-> AgentDetails] })

PrepareAgentOutcomes ==
    CallOutcomes("PrepareAgent", { [agentStatus |-> "PREPARING"], EmptyDict })

KeyError == [kind |-> "Exception", name |-> "KeyError"]

NameError == [kind |-> "Exception", name |-> "NameError"]

\* str(e) of a botocore ClientError
ClientErrorText(e) ==
    <<"An error occurred (",
      Get(Get(e.response, "Error", EmptyDict), "Code", "Unknown"),
      ") when calling the ", e.operation, " operation: ",
      Get(Get(e.response, "Error", EmptyDict), "Message", "Unknown")>>

\* common_utils.handle_client_error
handle_client_error(e) ==
    LET error == Get(e.response, "Error", EmptyDict)
    IN  CreateResponse(500,
          [error |-> <<"AWS Error: ", Get(error, "Code", "Unknown"), " - ">>
                     \o (IF "Message" \in DOMAIN error
                         THEN <<error["Message"]>>
                         ELSE ClientErrorText(e))])

\* common_utils.handle_general_exception
handle_general_exception == CreateResponse(500, [error |-> <<"Internal server error">>])

\* handler, lines 43-46: what the handler returns for an exception that
\* leaves update_agent_guardrail
HandlerExcept(e) ==
    IF e.kind = "ClientError" THEN handle_client_error(e) ELSE handle_general_exception

\* update_agent_guardrail, lines 307-310: an exception raised inside the
\* outer try is answered there when it is a ClientError and leaves the
\* function otherwise
UpdateGuardrailExcept(e) ==
    IF e.kind = "ClientError" THEN handle_client_error(e) ELSE HandlerExcept(e)

\* lines 219-223 and 269-273: the except clause of a lookup; `what` is the
\* text of the 404 body
LookupExcept(e, what) ==
    IF "Error" \notin DOMAIN e.response \/ "Code" \notin DOMAIN e.response["Error"]
    THEN UpdateGuardrailExcept(KeyError)
    ELSE IF e.response["Error"]["Code"] = "ResourceNotFoundException"
    THEN CreateResponse(404, [error |-> what])
    ELSE UpdateGuardrailExcept(e)

\* lines 227-239
BaseUpdateParams(agent_id, agent_details) ==
    [agentId |-> agent_id,
     agentName |-> Get(agent_details, "agentName", None),
     agentResourceRoleArn |-> Get(agent_details, "agentResourceRoleArn", None),
     foundationModel |-> Get(agent_details, "foundationModel", None),
     instruction |-> Get(agent_details, "instruction", None)]

\* mutant: the guardrail is never looked up
AfterGetAgentNoLookup(guardrail_id) == "update"

\* line 242: where update_agent_guardrail goes once the agent is found
AfterGetAgent(guardrail_id) ==
    IF ~Truthy(guardrail_id) THEN "update" ELSE "get_guardrail"

\* lines 183-194: how prepare_updated_agent ends for an outcome of
\* prepare_agent.  The except clause names `event`, which is neither a
\* parameter nor a global of the module, so handling a ClientError raises
\* NameError.
prepare_updated_agent(o) ==
    IF o.kind = "ok"
    THEN IF "agentStatus" \in DOMAIN o.response
         THEN [kind |-> "return", value |-> None]
         ELSE Raised(KeyError)
    ELSE IF o.kind = "ClientError"
    THEN Raised(NameError)
    ELSE Raised(o)

\* lines 284-288 and 298-305
UpdatedResponse(agent_id, guardrail_id, guardrail_version) ==
    IF ~Truthy(guardrail_id)
    THEN CreateResponse(200, [message |-> "Guardrail removed successfully",
                              agentId |-> agent_id,
                              currentGuardrail |-> None])
    ELSE CreateResponse(200, [message |-> "Guardrail updated successfully",
                              agentId |-> agent_id,
                              currentGuardrail |-> [id |-> guardrail_id,
                                                    version |-> guardrail_version]])

Returned(r) == [kind |-> "return", response |-> r]

Called(operation, params, o) == [op |-> operation, params |-> params, outcome |-> o]

guardrail_id == Get(request.d, "guardrailId", None)

guardrail_version == Get(request.d, "guardrailVersion", "DRAFT")

agent_id == Get(request.d, "agentId", None)

GuardrailInit ==
    /\ request \in GuardrailRequests
    /\ update_params = EmptyDict
    /\ service_calls = <<>>
    /\ gret = [kind |-> "none"]
    /\ gpc = "start"
    /\ retrieve_params = EmptyDict
    /\ params0 = EmptyDict
    /\ calls = <<>>
    /\ outcomes = <<>>
    /\ exc = NoExc
    /\ ret = NoRet
    /\ rpc = "idle"
    /\ response = EmptyDict
    /\ consumed = <<>>
    /\ result = EmptyDict
    /\ npc = "idle"
    /\ environ = EmptyDict
    /\ now = 0
    /\ start_time = -1
    /\ status = None
    /\ polls = 0
    /\ sleeps = 0
    /\ first_terminal = [at |-> 0, status |-> None]
    /\ pexc = NoExc
    /\ presult = NoRet
    /\ ppc = "idle"
    /\ body = [kind |-> "none"]
    /\ hret = [kind |-> "none"]
    /\ hpc = "idle"

\* lines 202-239: parse the body, require agentId, look the agent up
GetAgent ==
    /\ gpc = "start"
    /\ IF request.kind = "malformed"
       THEN /\ gret' = Returned(HandlerExcept(JSONDecodeError))
            /\ gpc' = "done"
            /\ UNCHANGED <<update_params, service_calls>>
       ELSE IF agent_id = None
       THEN /\ gret' = Returned(CreateResponse(400, [error |-> <<"agentId is required">>]))
            /\ gpc' = "done"
            /\ UNCHANGED <<update_params, service_calls>>
       ELSE \E o \in GetAgentOutcomes :
            /\ service_calls' = Append(service_calls,
                                       Called("get_agent", [agentId |-> agent_id], o))
            /\ IF o.kind = "ok"
               THEN /\ update_params' = BaseUpdateParams(agent_id,
                                            Get(o.response, "agent", EmptyDict))
                    /\ gpc' = AfterGetAgent(guardrail_id)
                    /\ UNCHANGED gret
               ELSE /\ gret' = Returned(IF o.kind = "ClientError"
                                        THEN LookupExcept(o, <<"Agent ", agent_id, " not found">>)
                                        ELSE UpdateGuardrailExcept(o))
                    /\ gpc' = "done"
                    /\ UNCHANGED update_params
    /\ UNCHANGED <<request, rvars, nvars, pvars, qvars>>

\* lines 252-273: verify that the guardrail exists
GetGuardrail ==
    /\ gpc = "get_guardrail"
    /\ \E o \in GetGuardrailOutcomes :
         /\ service_calls' = Append(service_calls,
                                    Called("get_guardrail",
                                           [guardrailIdentifier |-> guardrail_id,
                                            guardrailVersion |-> guardrail_version], o))
         /\ IF o.kind = "ok"
            THEN /\ update_params' = SetKey(update_params, "guardrailConfiguration",
                                            [guardrailIdentifier |-> guardrail_id,
                                             guardrailVersion |-> guardrail_version])
                 /\ gpc' = "update"
                 /\ UNCHANGED gret
            ELSE /\ gret' = Returned(IF o.kind = "ClientError"
                                     THEN LookupExcept(o, <<"Guardrail ", guardrail_id,
                                                            " not found">>)
                                     ELSE UpdateGuardrailExcept(o))
                 /\ gpc' = "done"
                 /\ UNCHANGED update_params
    /\ UNCHANGED <<request, rvars, nvars, pvars, qvars>>

\* line 276
UpdateAgent ==
    /\ gpc = "update"
    /\ \E o \in UpdateAgentOutcomes :
         /\ service_calls' = Append(service_calls, Called("update_agent", update_params, o))
         /\ IF o.kind = "ok"
            THEN /\ gpc' = "prepare"
                 /\ UNCHANGED gret
            ELSE /\ gret' = Returned(UpdateGuardrailExcept(o))
                 /\ gpc' = "done"
    /\ UNCHANGED <<request, update_params, rvars, nvars, pvars, qvars>>

\* lines 278-305: prepare_updated_agent, then the 200 response
PrepareAgent ==
    /\ gpc = "prepare"
    /\ \E o \in PrepareAgentOutcomes :
         /\ service_calls' = Append(service_calls,
                                    Called("prepare_agent", [agentId |-> agent_id], o))
         /\ gret' = Returned(IF prepare_updated_agent(o).kind = "raise"
                             THEN UpdateGuardrailExcept(prepare_updated_agent(o).error)
                             ELSE UpdatedResponse(agent_id, guardrail_id, guardrail_version))
         /\ gpc' = "done"
    /\ UNCHANGED <<request, update_params, rvars, nvars, pvars, qvars>>

GuardrailNext == GetAgent \/ GetGuardrail \/ UpdateAgent \/ PrepareAgent

SpecGuardrail == GuardrailInit /\ [][GuardrailNext]_vars

(***************************************************************************)
(* Claims about update_agent_guardrail and prepare_updated_agent           *)
(***************************************************************************)
\* call i was made and call j < i was `operation`, succeeded, with `params`
SucceededBefore(i, operation, params) ==
    \E j \in 1..(i - 1) :
        /\ service_calls[j].op = operation
        /\ service_calls[j].params = params
        /\ service_calls[j].outcome.kind = "ok"

NotFoundAt(i) ==
    /\ service_calls[i].op \in {"get_agent", "get_guardrail"}
    /\ service_calls[i].outcome.kind = "ClientError"
    /\ ErrorCode(service_calls[i].outcome) = "ResourceNotFoundException"

\* C29: update_agent is called only after get_agent succeeded and, when the
\* request names a guardrail, only after get_guardrail succeeded for that
\* guardrail and version; a ResourceNotFoundException from either lookup
\* ends the request with status 404 and no update_agent call;
\* prepare_agent is called only after update_agent succeeded.
C29_CallOrdering ==
    \A i \in 1..Len(service_calls) :
        /\ service_calls[i].op = "update_agent"
             => /\ SucceededBefore(i, "get_agent", [agentId |-> agent_id])
                /\ Truthy(guardrail_id)
                     => SucceededBefore(i, "get_guardrail",
                                        [guardrailIdentifier |-> guardrail_id,
                                         guardrailVersion |-> guardrail_version])
        /\ service_calls[i].op = "prepare_agent"
             => \E j \in 1..(i - 1) : /\ service_calls[j].op = "update_agent"
                                       /\ service_calls[j].outcome.kind = "ok"
        /\ NotFoundAt(i)
             => /\ i = Len(service_calls)
                /\ gpc = "done"
                /\ gret.response.statusCode = 404
                /\ \A j \in 1..Len(service_calls) : service_calls[j].op # "update_agent"

\* all four calls were made, for a request that names a guardrail
C29_Witness ==
    /\ Len(service_calls) = 4
    /\ service_calls[1].op = "get_agent"
    /\ service_calls[2].op = "get_guardrail"
    /\ service_calls[3].op = "update_agent"
    /\ service_calls[4].op = "prepare_agent"
    /\ guardrail_id = "gr-1"

\* the guardrail was not found: 404 and no update
C29_NotFoundWitness ==
    /\ Len(service_calls) = 2
    /\ NotFoundAt(2)
    /\ gret.kind = "return"
    /\ gret.response.statusCode = 404

PrepareAgentFailed ==
    /\ gpc = "done"
    /\ Len(service_calls) > 0
    /\ service_calls[Len(service_calls)].op = "prepare_agent"
    /\ service_calls[Len(service_calls)].outcome.kind = "ClientError"

\* C30: when update_agent succeeded and prepare_agent then raised a
\* ClientError, the handler returns the 200 response of the update:
\* 'Guardrail updated successfully' when the request named a guardrail,
\* 'Guardrail removed successfully' when it did not.
C30_PrepareErrorAbsorbed ==
    PrepareAgentFailed
      => /\ gret.kind = "return"
         /\ gret.response = UpdatedResponse(agent_id, guardrail_id, guardrail_version)

\* what the code does instead: the handler answers 500
C30_PrepareErrorIs500 ==
    PrepareAgentFailed
      => gret.response = CreateResponse(500, [error |-> <<"Internal server error">>])

C30_Witness ==
    /\ PrepareAgentFailed
    /\ guardrail_id = "gr-1"
    /\ gret.response.statusCode = 500

====
